---- MODULE Spec2Model ----
(***************************************************************************)
(* Model of the retrieval / citation core of smart-document-search-system. *)
(*                                                                         *)
(* JavaScript strings are sequences of one-character strings.  A           *)
(* JavaScript value whose type the code inspects is a record with a type   *)
(* tag t (the result of typeof, with "null" and "nan" kept apart) and a    *)
(* payload: s for strings, n for numbers.  A thrown exception is an        *)
(* explicit outcome of the operator that models the throwing function.     *)
(***************************************************************************)
EXTENDS Integers, Sequences, FiniteSets, TLC

VARIABLES
  pc,               \* the call that is pending, or "done"
  llmCitations,     \* buildBasedOnDocs: params.llmCitations
  retrievedChunks,  \* buildBasedOnDocs: params.retrievedChunks
  maxCitations,     \* buildBasedOnDocs: params.maxCitations
  basedOnDocs,      \* buildBasedOnDocs: outcome (returned list, or thrown)
  text,             \* sanitizeQuote: the text argument
  quote,            \* sanitizeQuote: returned string
  question,         \* the question whose keywords score a chunk
  chunkText,        \* scoreChunk: the chunk text
  questionKeywords, \* scoreChunk: the keyword list
  score,            \* scoreChunk: returned ratio, as numerator / denominator
  documents,        \* the rows of table documents, in order of creation
  documents_fts,    \* the rows of the full-text table documents_fts
  fts5Available,    \* whether initSchema could create documents_fts
  request,          \* retrieveChunks: the arguments, and which collaborators fail
  retrieval,        \* retrieveChunks: its local variables and its outcome
  rawText,          \* normalizeText: the argument
  normalized,       \* normalizeText: the result
  renormalized,     \* normalizeText applied to its own result
  chunkArgs,        \* chunkText: the arguments, and the caller
  windows,          \* chunkText: the returned windows
  gen,              \* generateAnswer: its local variables, its calls, its outcome
  body,             \* answerQuestion: req.body
  generated,        \* answerQuestion: what the call of generateAnswer gave
  response,         \* answerQuestion: the response, or the error passed to next
  uploads,          \* uploadDocument: each request's file, position and response
  disk              \* the files in the uploads directory

citationVars == <<llmCitations, retrievedChunks, maxCitations, basedOnDocs, text, quote>>

scoreVars == <<question, chunkText, questionKeywords, score>>

retrievalVars == <<documents, documents_fts, fts5Available, request, retrieval>>

normalizeVars == <<rawText, normalized, renormalized>>

chunkVars == <<chunkArgs, windows>>

genVars == <<gen>>

qaVars == <<body, generated, response>>

uploadVars == <<uploads, disk>>

vars == <<pc, citationVars, scoreVars, retrievalVars, normalizeVars, chunkVars,
          genVars, qaVars, uploadVars>>

(***************************************************************************)
(* Bounds of the model.                                                    *)
(***************************************************************************)
MaxClaims == 2
MaxChunks == 2
MaxCitArg == 2
MaxAffix == 2
MaxQuestionLen == 5
MaxTextLen == 3
MaxDocs == 2
MaxRawLen == 5
MaxWindowText == 6
MaxWindowSize == 3
MaxRounds == 2
MaxCalls == 12
MaxUploads == 3

(***************************************************************************)
(* Program constants.                                                      *)
(***************************************************************************)
QuoteMaxLen == 200
DefaultMaxCitations == 3
LimitFallback == 3
LimitCap == 10
PreviewLen == 200
ChunkSize == 1000
ChunkOverlap == 100
SearchKeywords == 3
MinTextLength == 20
SearchLimitDefault == 50
SearchLimitCap == 50
RetryMaxSeconds == 5
CandidateCap == 8
TopKDefault == 6
TopKCap == 10
DocLimitDefault == 15
DocLimitCap == 25
FallbackCitations == 3

(***************************************************************************)
(* Integers and strings.                                                   *)
(***************************************************************************)
Min2(a, b) == IF a <= b THEN a ELSE b

Max2(a, b) == IF a >= b THEN a ELSE b

SetMin(S) == CHOOSE x \in S : \A y \in S : x <= y

SetMax(S) == CHOOSE x \in S : \A y \in S : x >= y

Rep(ch, n) == [i \in 1..n |-> ch]

\* The characters matched by \s in a JavaScript regular expression, and
\* stripped by String.prototype.trim, that the model's alphabet contains.
WhiteSpace == {" ", "\n", "\t"}

IsWS(ch) == ch \in WhiteSpace

\* String.prototype.slice(from, to) on a string s (0-based, end exclusive,
\* negative arguments counted from the end).
Slice(s, from, to) ==
  LET len == Len(s)
      f == IF from < 0 THEN Max2(len + from, 0) ELSE Min2(from, len)
      e == IF to < 0 THEN Max2(len + to, 0) ELSE Min2(to, len)
  IN  IF f >= e THEN <<>> ELSE SubSeq(s, f + 1, e)

\* s.replace(/\s+/g, ' '): every maximal run of whitespace becomes one space.
CollapseWS(s) ==
  LET marked == [i \in 1..Len(s) |->
                   [c    |-> IF IsWS(s[i]) THEN " " ELSE s[i],
                    keep |-> \/ ~IsWS(s[i])
                             \/ i = 1
                             \/ ~IsWS(s[i - 1])]]
      kept == SelectSeq(marked, LAMBDA m : m.keep)
  IN  [i \in 1..Len(kept) |-> kept[i].c]

\* String.prototype.trim.
Trim(s) ==
  LET solid == {i \in 1..Len(s) : ~IsWS(s[i])}
      first == CHOOSE i \in solid : \A j \in 1..(i - 1) : IsWS(s[j])
      last == CHOOSE i \in solid : \A j \in (i + 1)..Len(s) : IsWS(s[j])
  IN  IF solid = {} THEN <<>> ELSE SubSeq(s, first, last)

(***************************************************************************)
(* JavaScript values.                                                      *)
(***************************************************************************)
Str(s) == [t |-> "string", s |-> s]

NotStr(tag) == [t |-> tag, s |-> <<>>]

Id(s) == [t |-> "string", s |-> s]

NotId(tag) == [t |-> tag, s |-> ""]

Num(n) == [t |-> "number", n |-> n]

NotNum(tag) == [t |-> tag, n |-> 0]

\* A string value is truthy unless it is empty; undefined and null are falsy;
\* the numbers the model uses as ill-typed strings are non-zero, hence truthy.
TruthyStr(v) == IF v.t = "string" THEN v.s # <<>> ELSE v.t \notin {"undefined", "null"}

(***************************************************************************)
(* sanitizeQuote                                                           *)
(***************************************************************************)
\* A plausible slip: the length cap is left out.
sanitizeQuoteMax_NoCap(v, maxLen) ==
  IF v.t # "string" THEN <<>> ELSE Trim(CollapseWS(v.s))

sanitizeQuoteMax(v, maxLen) ==
  IF v.t # "string" THEN <<>>
  ELSE LET cleaned == Trim(CollapseWS(v.s))
       IN  IF Len(cleaned) > maxLen THEN Slice(cleaned, 0, maxLen) ELSE cleaned

sanitizeQuote(v) == sanitizeQuoteMax(v, QuoteMaxLen)

isFiniteNumber(v) == v.t = "number"

(***************************************************************************)
(* Chunks, claimed citations, citations.                                   *)
(***************************************************************************)
\* An element of retrievedChunks as retrieveChunks builds it.
Chunk(chunkId, docId, docName, startChar, textv) ==
  [t |-> "object", chunkId |-> chunkId, docId |-> docId, docName |-> docName,
   startChar |-> startChar, endChar |-> startChar + Len(textv.s), text |-> textv]

\* A null element of retrievedChunks.
NullChunk ==
  [t |-> "null", chunkId |-> "", docId |-> "", docName |-> "",
   startChar |-> 0, endChar |-> 0, text |-> NotStr("undefined")]

\* An element of llmCitations that is an object.
Claim(chunkId, docId, startChar, endChar, q) ==
  [t |-> "object", chunkId |-> chunkId, docId |-> docId,
   startChar |-> startChar, endChar |-> endChar, quote |-> q]

\* An element of llmCitations that is no object (null, a number, ...).
NonObjectClaim(tag) ==
  [t |-> tag, chunkId |-> NotId("undefined"), docId |-> NotId("undefined"),
   startChar |-> NotNum("undefined"), endChar |-> NotNum("undefined"),
   quote |-> NotStr("undefined")]

NoCitation ==
  [docId |-> "", docName |-> "", chunkId |-> "", startChar |-> 0, endChar |-> 0,
   quote |-> <<>>]

(***************************************************************************)
(* findMatchingChunk                                                       *)
(***************************************************************************)
\* Array.prototype.find with a callback that reads a property of each
\* element: of the indexes hits that satisfy the callback, the first, unless
\* a null element comes before it, on which the property read throws a
\* TypeError.
FirstHit(chunks, hits) ==
  LET stops == hits \cup {i \in 1..Len(chunks) : chunks[i].t = "null"}
  IN  IF stops = {} THEN [st |-> "null", i |-> 0]
      ELSE IF chunks[SetMin(stops)].t = "null" THEN [st |-> "throw", i |-> 0]
      ELSE [st |-> "found", i |-> SetMin(stops)]

\* retrievedChunks.find((ch) => ch.chunkId === c.chunkId)
FindByChunkId(chunks, chunkId) ==
  FirstHit(chunks, {i \in 1..Len(chunks) : chunks[i].chunkId = chunkId})

\* retrievedChunks.find((ch) => ch.docId === c.docId && ... contains the range)
FindByRange(chunks, docId, start, end) ==
  FirstHit(chunks, {i \in 1..Len(chunks) :
                      /\ chunks[i].docId = docId
                      /\ chunks[i].startChar <= start
                      /\ chunks[i].endChar >= end})

\* A plausible variant: when the claimed chunkId matches nothing, go on to
\* the range match instead of returning null.
findMatchingChunk_FallThrough(c, chunks) ==
  IF Len(chunks) = 0 THEN [st |-> "null", i |-> 0]
  ELSE IF /\ c.t = "object" /\ c.chunkId.t = "string" /\ c.chunkId.s # ""
          /\ FindByChunkId(chunks, c.chunkId.s).st # "null"
  THEN FindByChunkId(chunks, c.chunkId.s)
  ELSE IF /\ c.t = "object" /\ c.docId.t = "string" /\ c.docId.s # ""
          /\ isFiniteNumber(c.startChar) /\ isFiniteNumber(c.endChar)
  THEN FindByRange(chunks, c.docId.s, c.startChar.n, c.endChar.n)
  ELSE [st |-> "null", i |-> 0]

findMatchingChunk(c, chunks) ==
  IF Len(chunks) = 0 THEN [st |-> "null", i |-> 0]
  ELSE IF c.t = "object" /\ c.chunkId.t = "string" /\ c.chunkId.s # ""
  THEN FindByChunkId(chunks, c.chunkId.s)
  ELSE IF /\ c.t = "object" /\ c.docId.t = "string" /\ c.docId.s # ""
          /\ isFiniteNumber(c.startChar) /\ isFiniteNumber(c.endChar)
  THEN FindByRange(chunks, c.docId.s, c.startChar.n, c.endChar.n)
  ELSE [st |-> "null", i |-> 0]

(***************************************************************************)
(* validateCitation                                                        *)
(***************************************************************************)
\* A plausible slip: the offsets are taken as offsets into the chunk's text.
citationQuote_Absolute(c, chunk, startChar, endChar) ==
  LET own == sanitizeQuote(IF TruthyStr(c.quote) THEN c.quote ELSE Str(<<>>))
  IN  IF Len(own) = 0 /\ chunk.text.t = "string" /\ Len(chunk.text.s) > 0
      THEN LET localStart == Max2(0, startChar)
               localEnd == Min2(Len(chunk.text.s), Max2(localStart, endChar))
               fromSlice == sanitizeQuote(Str(Slice(chunk.text.s, localStart, localEnd)))
           IN  IF Len(fromSlice) = 0
               THEN sanitizeQuote(Str(Slice(chunk.text.s, 0, PreviewLen)))
               ELSE fromSlice
      ELSE own

citationQuote(c, chunk, startChar, endChar) ==
  LET own == sanitizeQuote(IF TruthyStr(c.quote) THEN c.quote ELSE Str(<<>>))
  IN  IF Len(own) = 0 /\ chunk.text.t = "string" /\ Len(chunk.text.s) > 0
      THEN LET localStart == Max2(0, startChar - chunk.startChar)
               localEnd == Min2(Len(chunk.text.s),
                                Max2(localStart, endChar - chunk.startChar))
               sliced == Slice(chunk.text.s, localStart, localEnd)
               fromSlice == sanitizeQuote(Str(sliced))
           IN  IF Len(fromSlice) = 0
               THEN sanitizeQuote(Str(Slice(chunk.text.s, 0, PreviewLen)))
               ELSE fromSlice
      ELSE own

\* The citation built from claim c and its matched chunk: a plausible slip
\* copies the document id from the claim.
citationOf_ClaimDocId(c, chunk) ==
  LET startChar == IF isFiniteNumber(c.startChar)
                   THEN Max2(chunk.startChar, c.startChar.n)
                   ELSE chunk.startChar
      endChar == IF isFiniteNumber(c.endChar)
                 THEN Min2(chunk.endChar, c.endChar.n)
                 ELSE chunk.endChar
  IN  [docId |-> IF c.docId.t = "string" THEN c.docId.s ELSE chunk.docId,
       docName |-> chunk.docName,
       chunkId |-> chunk.chunkId,
       startChar |-> startChar,
       endChar |-> Max2(startChar, endChar),
       quote |-> citationQuote(c, chunk, startChar, endChar)]

\* The citation built from claim c and its matched chunk.
citationOf(c, chunk) ==
  LET startChar == IF isFiniteNumber(c.startChar)
                   THEN Max2(chunk.startChar, c.startChar.n)
                   ELSE chunk.startChar
      endChar == IF isFiniteNumber(c.endChar)
                 THEN Min2(chunk.endChar, c.endChar.n)
                 ELSE chunk.endChar
  IN  [docId |-> chunk.docId,
       docName |-> chunk.docName,
       chunkId |-> chunk.chunkId,
       startChar |-> startChar,
       endChar |-> Max2(startChar, endChar),
       quote |-> citationQuote(c, chunk, startChar, endChar)]

validateCitation(c, chunks) ==
  IF c.t # "object" THEN [st |-> "null", v |-> NoCitation]
  ELSE LET m == findMatchingChunk(c, chunks)
       IN  IF m.st # "found" THEN [st |-> m.st, v |-> NoCitation]
           ELSE [st |-> "ok", v |-> citationOf(c, chunks[m.i])]

(***************************************************************************)
(* buildBasedOnDocs                                                        *)
(***************************************************************************)
Thrown == [threw |-> TRUE, list |-> <<>>]

Returned(list) == [threw |-> FALSE, list |-> list]

\* parseInt(maxCitations) || 3, after the parameter default: undefined takes
\* the default 3; a number parses to itself; null and a non-numeric string
\* parse to NaN; NaN and 0 are falsy and give 3; a Symbol cannot be converted
\* to a string and throws.
parseLimit(maxCit) ==
  LET given == IF maxCit.t = "undefined" THEN Num(DefaultMaxCitations) ELSE maxCit
      parsed == IF given.t = "number" /\ given.n # 0 THEN given.n ELSE LimitFallback
  IN  IF given.t = "symbol" THEN [st |-> "throw", n |-> 0]
      ELSE [st |-> "ok", n |-> Max2(0, Min2(parsed, LimitCap))]

\* The loop over llmCitations, from claim i on, with the citations validated
\* so far; seen is the set of their chunkIds.
RECURSIVE validateLoop(_, _, _, _, _)
validateLoop(claims, i, validated, chunks, limit) ==
  IF i > Len(claims) THEN Returned(validated)
  ELSE LET r == validateCitation(claims[i], chunks)
           seen == {validated[k].chunkId : k \in 1..Len(validated)}
       IN  IF r.st = "throw" THEN Thrown
           ELSE IF r.st = "null" THEN validateLoop(claims, i + 1, validated, chunks, limit)
           ELSE IF r.v.chunkId \in seen
           THEN validateLoop(claims, i + 1, validated, chunks, limit)
           ELSE IF Len(validated) + 1 >= limit THEN Returned(Append(validated, r.v))
           ELSE validateLoop(claims, i + 1, Append(validated, r.v), chunks, limit)

\* safeRetrieved.slice(0, limit).map(...): a null element among those mapped
\* throws on the property read.
fallbackCitations(chunks, limit) ==
  LET top == Slice(chunks, 0, limit)
  IN  IF \E i \in 1..Len(top) : top[i].t = "null" THEN Thrown
      ELSE Returned([i \in 1..Len(top) |->
             [docId |-> top[i].docId,
              docName |-> top[i].docName,
              chunkId |-> top[i].chunkId,
              startChar |-> top[i].startChar,
              endChar |-> top[i].endChar,
              quote |-> sanitizeQuote(IF top[i].text.t = "string"
                                      THEN Str(Slice(top[i].text.s, 0, PreviewLen))
                                      ELSE Str(<<>>))]])

\* The body of the try block.
buildBasedOnDocsTry(llm, retrieved, maxCit) ==
  LET safeRetrieved == IF retrieved.t = "array" THEN retrieved.a ELSE <<>>
      limit == parseLimit(maxCit)
  IN  IF limit.st = "throw" THEN Thrown
      ELSE IF llm.t = "array" /\ Len(llm.a) > 0
      THEN LET r == validateLoop(llm.a, 1, <<>>, safeRetrieved, limit.n)
           IN  IF r.threw THEN Thrown
               ELSE IF Len(r.list) > 0 THEN r
               ELSE fallbackCitations(safeRetrieved, limit.n)
      ELSE fallbackCitations(safeRetrieved, limit.n)

\* A plausible slip: no try/catch around the body.
buildBasedOnDocs_NoCatch(llm, retrieved, maxCit) ==
  buildBasedOnDocsTry(llm, retrieved, maxCit)

\* try { ... } catch (_) { return []; }
buildBasedOnDocs(llm, retrieved, maxCit) ==
  LET r == buildBasedOnDocsTry(llm, retrieved, maxCit)
  IN  IF r.threw THEN Returned(<<>>) ELSE r

(***************************************************************************)
(* normalizeText, extractKeywords                                          *)
(***************************************************************************)
\* String.prototype.toLowerCase on one character, for the upper-case letters
\* the model's alphabet contains.
LowerChar(ch) == IF ch = "A" THEN "a" ELSE IF ch = "N" THEN "n" ELSE ch

ToLowerCase(s) == [i \in 1..Len(s) |-> LowerChar(s[i])]

\* text.toLowerCase().trim().replace(/\s+/g, ' ') for a string.
normalizeText(s) == CollapseWS(Trim(ToLowerCase(s)))

\* s.split(/\s+/): the pieces between maximal runs of whitespace, the empty
\* pieces before a leading and after a trailing run included.
RECURSIVE splitLoop(_, _, _, _)
splitLoop(s, i, piece, pieces) ==
  IF i > Len(s) THEN Append(pieces, piece)
  ELSE IF IsWS(s[i])
  THEN (IF i > 1 /\ IsWS(s[i - 1])
        THEN splitLoop(s, i + 1, piece, pieces)
        ELSE splitLoop(s, i + 1, <<>>, Append(pieces, piece)))
  ELSE splitLoop(s, i + 1, Append(piece, s[i]), pieces)

SplitWS(s) == splitLoop(s, 1, <<>>, <<>>)

\* The stop words; the two letters outside ASCII are written by name.
StopWords ==
  {
   <<"v", "e">>, <<"i", "l", "e">>, <<"b", "i", "r">>, <<"b", "u">>,
   <<"s-cedilla", "u">>, <<"o">>, <<"d", "a">>, <<"d", "e">>, <<"k", "i">>,
   <<"m", "i">>, <<"m", "u">>, <<"m", "u-umlaut">>, <<"t", "h", "e">>,
   <<"a">>, <<"a", "n">>, <<"a", "n", "d">>, <<"o", "r">>,
   <<"b", "u", "t">>, <<"i", "n">>, <<"o", "n">>, <<"a", "t">>,
   <<"t", "o">>, <<"f", "o", "r">>, <<"o", "f">>, <<"w", "i", "t", "h">>,
   <<"b", "y">>, <<"i", "s">>, <<"a", "r", "e">>, <<"w", "a", "s">>,
   <<"w", "e", "r", "e">>, <<"b", "e">>, <<"b", "e", "e", "n">>,
   <<"h", "a", "v", "e">>, <<"h", "a", "s">>, <<"h", "a", "d">>,
   <<"d", "o">>, <<"d", "o", "e", "s">>, <<"d", "i", "d">>,
   <<"w", "i", "l", "l">>, <<"w", "o", "u", "l", "d">>,
   <<"c", "o", "u", "l", "d">>, <<"s", "h", "o", "u", "l", "d">>
  }

extractKeywords(s) ==
  SelectSeq(SplitWS(normalizeText(s)),
            LAMBDA word : Len(word) >= 2 /\ word \notin StopWords)

(***************************************************************************)
(* scoreChunk                                                              *)
(***************************************************************************)
\* String.prototype.includes.
Includes(s, sub) ==
  \E i \in 0..(Len(s) - Len(sub)) : SubSeq(s, i + 1, i + Len(sub)) = sub

\* The loop of scoreChunk from keyword k on: matchCount counts every list
\* entry that the lower-cased chunk includes.
RECURSIVE matchCountFrom(_, _, _)
matchCountFrom(chunkLower, keywords, k) ==
  IF k > Len(keywords) THEN 0
  ELSE (IF Includes(chunkLower, ToLowerCase(keywords[k])) THEN 1 ELSE 0)
       + matchCountFrom(chunkLower, keywords, k + 1)

\* A plausible variant: each distinct keyword counts once.
scoreChunk_Distinct(chunk, keywords) ==
  IF Len(keywords) = 0 THEN [num |-> 0, den |-> 1]
  ELSE [num |-> Cardinality({keywords[k] : k \in
                  {n \in 1..Len(keywords) :
                     Includes(ToLowerCase(chunk), ToLowerCase(keywords[n]))}}),
        den |-> Len(keywords)]

\* A plausible variant: no guard for the empty keyword list, the ratio 0 / 0.
scoreChunk_NoGuard(chunk, keywords) ==
  [num |-> matchCountFrom(ToLowerCase(chunk), keywords, 1),
   den |-> Len(keywords)]

\* The score is the ratio matchCount / questionKeywords.length, kept as a
\* fraction; 0 for an empty keyword list.
scoreChunk(chunk, keywords) ==
  IF Len(keywords) = 0 THEN [num |-> 0, den |-> 1]
  ELSE [num |-> matchCountFrom(ToLowerCase(chunk), keywords, 1),
        den |-> Len(keywords)]

(***************************************************************************)
(* chunkText (utils/chunkText): windows of size characters that advance by *)
(* size - overlap, by at least one character; the window that reaches the  *)
(* end of the text is clipped to it and is the last one.                   *)
(***************************************************************************)
RECURSIVE chunkLoop(_, _, _, _, _)
chunkLoop(txt, size, step, start, acc) ==
  LET end == Min2(start + size, Len(txt))
      more == Append(acc, [text |-> Slice(txt, start, end),
                           startChar |-> start, endChar |-> end])
  IN  IF end >= Len(txt) THEN more
      ELSE chunkLoop(txt, size, step, start + step, more)

chunkTextOf(txt, size, overlap) ==
  IF Len(txt) = 0 THEN <<>>
  ELSE chunkLoop(txt, size, Max2(size - overlap, 1), 0, <<>>)

\* A plausible variant of the call in retrieveChunks: the overlap left out.
chunkDocumentText_NoOverlap(txt) == chunkTextOf(txt, ChunkSize, 0)

\* The call chunkText(text, 1000, 100) of retrieveChunks.
chunkDocumentText(txt) == chunkTextOf(txt, ChunkSize, ChunkOverlap)

(***************************************************************************)
(* normalizeText of utils/normalize and of utils/textNormalize, on values  *)
(* of any type.                                                            *)
(***************************************************************************)
\* A plausible variant: the trim is forgotten.
normalizeTextAny_NoTrim(v) ==
  IF v.t # "string" THEN <<>> ELSE CollapseWS(ToLowerCase(v.s))

\* utils/normalize: '' for a value that is not a string.
normalizeTextAny(v) == IF v.t # "string" THEN <<>> ELSE normalizeText(v.s)

\* utils/textNormalize: text.replace(/\s+/g, ' ').trim().
normalizeExtracted(v) == IF v.t # "string" THEN <<>> ELSE Trim(CollapseWS(v.s))

(***************************************************************************)
(* The documents table, the full-text table and the uploads folder.        *)
(***************************************************************************)
Sp == <<" ">>

Cat == <<"c", "a", "t">>

Fox == <<"f", "o", "x">>

Owl == <<"o", "w", "l">>

Dog == <<"d", "o", "g">>

Emu == <<"e", "m", "u">>

The == <<"t", "h", "e">>

NoDocument ==
  [t |-> "null", id |-> "", originalName |-> <<>>, storedPath |-> <<>>,
   mimeType |-> "", contentText |-> NotStr("null"), createdAt |-> 0]

Document(id, originalName, storedPath, mimeType, contentText) ==
  [t |-> "object", id |-> id, originalName |-> originalName,
   storedPath |-> storedPath, mimeType |-> mimeType,
   contentText |-> contentText, createdAt |-> 0]

\* An uploaded text file whose extracted text is stored: two windows, the
\* word fox only in the first and the word cat only in the second.
DocFox ==
  Document("d1", Fox, <<"u", "/", "1">>, "text/plain",
           Str(Fox \o Sp \o Rep("x", ChunkSize) \o Sp \o Cat))

\* A record without stored text (created before the column content_text, or
\* with contentText null) whose file can be extracted.
DocOwl ==
  Document("d2", Owl, <<"u", "/", "2">>, "application/pdf", NotStr("null"))

\* A record without stored text whose file is gone from the uploads folder.
DocCat ==
  Document("d3", Cat, <<"u", "/", "3">>, "application/pdf", NotStr("null"))

DocumentPool == <<DocFox, DocOwl, DocCat>>

\* The files of the uploads folder, by path: the text a read or a PDF parse
\* yields.  A path outside the domain cannot be read.
Uploads ==
  (<<"u", "/", "1">> :> Fox \o Sp \o Rep("x", ChunkSize) \o Sp \o Cat)
  @@ (<<"u", "/", "2">> :>
        Sp \o <<"c", "A", "t">> \o Sp \o Sp \o Owl \o Sp \o Rep("x", MinTextLength))

SupportedMimeTypes == {"application/pdf", "text/plain"}

\* extractTextFromFile over the files of a folder: the normalized text of
\* the file, or a thrown AppError.
extractTextIn(files, path, mimeType) ==
  IF Len(path) = 0 \/ mimeType \notin SupportedMimeTypes
     \/ path \notin DOMAIN files
  THEN [st |-> "throw", s |-> <<>>]
  ELSE LET txt == normalizeExtracted(Str(files[path]))
       IN  IF Len(txt) < MinTextLength THEN [st |-> "throw", s |-> <<>>]
           ELSE [st |-> "ok", s |-> txt]

\* extractTextFromFile, of the retrieval: the folder is Uploads.
extractTextFromFile(path, mimeType) == extractTextIn(Uploads, path, mimeType)

(***************************************************************************)
(* documentsRepo                                                           *)
(***************************************************************************)
Take(s, n) == SubSeq(s, 1, Min2(n, Len(s)))

Reverse(s) == [i \in 1..Len(s) |-> s[Len(s) + 1 - i]]

RECURSIVE Flatten(_)
Flatten(lists) ==
  IF Len(lists) = 0 THEN <<>> ELSE Head(lists) \o Flatten(Tail(lists))

\* The row of documents_fts for a document: doc_id, original_name and
\* COALESCE(content_text, '').
FtsRow(doc) ==
  [doc_id |-> doc.id, original_name |-> doc.originalName,
   content_text |-> IF doc.contentText.t = "string" THEN doc.contentText.s
                    ELSE <<>>]

\* createDocument: the INSERT into documents, whose trigger
\* documents_fts_insert adds a row to documents_fts, then the manual INSERT
\* into documents_fts; without FTS5 there is no table and no trigger.
rowsOfCreate(doc) ==
  IF fts5Available THEN <<FtsRow(doc), FtsRow(doc)>> ELSE <<>>

getDocumentById(id) ==
  LET hits == {i \in 1..Len(documents) : documents[i].id = id}
  IN  IF hits = {} THEN NoDocument ELSE documents[SetMin(hits)]

\* listDocuments: ORDER BY created_at DESC LIMIT limit OFFSET 0.
listDocuments(limit) == Take(Reverse(documents), limit)

\* Math.min(Math.max(parseInt(limit) || 50, 1), 50) for an integer limit.
safeLimit(limit) ==
  Min2(Max2(IF limit = 0 THEN SearchLimitDefault ELSE limit, 1), SearchLimitCap)

\* The characters that separate the tokens of the FTS5 tokenizer.
IsSeparator(ch) == ch \in WhiteSpace \cup {"/", "."}

\* A term of a MATCH query matches a column that has it as a token, in any
\* case of its letters.
HasToken(column, term) ==
  LET low == ToLowerCase(column)
  IN  \E i \in 0..(Len(low) - Len(term)) :
        /\ low[i + 1] = term[1]
        /\ SubSeq(low, i + 1, i + Len(term)) = term
        /\ (i = 0 \/ IsSeparator(low[i]))
        /\ (i + Len(term) = Len(low) \/ IsSeparator(low[i + Len(term) + 1]))

ftsMatch(row, terms) ==
  \E k \in 1..Len(terms) :
    HasToken(row.original_name, terms[k]) \/ HasToken(row.content_text, terms[k])

\* The FTS5 query: documents_fts JOIN documents WHERE documents_fts MATCH
\* 'term OR term', one result per matching row of documents_fts.  The order
\* by bm25 is an input: rank lists the positions of the documents, best first.
ftsSearch(terms, rank) ==
  Flatten([r \in 1..Len(rank) |->
    LET doc == documents[rank[r]]
        rows == SelectSeq(documents_fts,
                  LAMBDA row : row.doc_id = doc.id /\ ftsMatch(row, terms))
    IN  [j \in 1..Len(rows) |-> doc.id]])

\* The LIKE fallback: the whole query as a substring of original_name,
\* stored_path or content_text, ORDER BY created_at DESC.
likeSearch(q) ==
  LET hit(doc) ==
        \/ Includes(ToLowerCase(doc.originalName), q)
        \/ Includes(ToLowerCase(doc.storedPath), q)
        \/ /\ doc.contentText.t = "string"
           /\ Includes(ToLowerCase(doc.contentText.s), q)
      hits == SelectSeq(Reverse(documents), hit)
  IN  [j \in 1..Len(hits) |-> hits[j].id]

\* searchDocumentsByKeyword(q, {limit, offset: 0, docId: null}): the ids of
\* the results.
searchDocumentsByKeyword(q, limit, rank) ==
  LET terms == SelectSeq(SplitWS(Trim(q)), LAMBDA term : Len(term) > 0)
  IN  IF fts5Available
      THEN (IF Len(terms) = 0 THEN <<>>
            ELSE Take(ftsSearch(terms, rank), safeLimit(limit)))
      ELSE Take(likeSearch(q), safeLimit(limit))

(***************************************************************************)
(* retrievalService: getDocumentText, retrieveChunks                       *)
(***************************************************************************)
\* words.join(' ')
RECURSIVE Join(_)
Join(words) ==
  IF Len(words) = 0 THEN <<>>
  ELSE IF Len(words) = 1 THEN words[1]
  ELSE words[1] \o Sp \o Join(Tail(words))

\* The collaborators of retrieveChunks that can throw (a database error).
Collaborators == {"searchDocumentsByKeyword", "getDocumentById", "listDocuments"}

NullId == NotId("null")

\* if (docId)
HasDocId(docId) == docId.t = "string" /\ docId.s # ""

Selection(st, docs, searched, listed, searchQuery) ==
  [st |-> st, docs |-> docs, searched |-> searched, listed |-> listed,
   searchQuery |-> searchQuery]

\* The candidate documents without a docId: the results of the search for
\* the first keywords; else the most recent documents.  st is "throw" for an
\* exception that no catch of retrieveChunks meets.
searchOrRecent(kws, docLimit, fail, rank) ==
  LET searching == Len(kws) > 0
      searchQuery == IF searching THEN Join(Take(kws, SearchKeywords)) ELSE <<>>
      ids == IF searching /\ "searchDocumentsByKeyword" \notin fail
             THEN searchDocumentsByKeyword(searchQuery, docLimit, rank)
             ELSE <<>>
      found == IF Len(ids) = 0 \/ "getDocumentById" \in fail THEN <<>>
               ELSE SelectSeq([i \in 1..Len(ids) |-> getDocumentById(ids[i])],
                              LAMBDA doc : doc.t # "null")
      listing == Len(found) = 0
  IN  IF listing /\ "listDocuments" \in fail
      THEN Selection("throw", <<>>, searching, TRUE, searchQuery)
      ELSE Selection("ok",
                     Take(IF listing THEN listDocuments(docLimit) ELSE found,
                          docLimit),
                     searching, listing, searchQuery)

\* A plausible variant: a docId that names no document falls back to the
\* search and the recent documents.
selectCandidates_FallsBack(kws, docLimit, docId, fail, rank) ==
  IF HasDocId(docId) /\ "getDocumentById" \in fail
  THEN Selection("throw", <<>>, FALSE, FALSE, <<>>)
  ELSE IF HasDocId(docId) /\ getDocumentById(docId.s).t # "null"
  THEN Selection("ok", <<getDocumentById(docId.s)>>, FALSE, FALSE, <<>>)
  ELSE searchOrRecent(kws, docLimit, fail, rank)

\* The candidate documents: the document that docId names, with the early
\* return of [] (st "return") if there is none; else searchOrRecent.
selectCandidates(kws, docLimit, docId, fail, rank) ==
  IF HasDocId(docId)
  THEN (IF "getDocumentById" \in fail
        THEN Selection("throw", <<>>, FALSE, FALSE, <<>>)
        ELSE LET doc == getDocumentById(docId.s)
             IN  IF doc.t = "null"
                 THEN Selection("return", <<>>, FALSE, FALSE, <<>>)
                 ELSE Selection("ok", <<doc>>, FALSE, FALSE, <<>>))
  ELSE searchOrRecent(kws, docLimit, fail, rank)

\* getDocumentText with the calls of extractTextFromFile it makes: the
\* stored text unless blank and no call, else one call and the text
\* extracted from the file, '' when the extraction throws.
readDocumentText(doc) ==
  IF doc.contentText.t = "string" /\ Len(Trim(doc.contentText.s)) > 0
  THEN [text |-> doc.contentText.s, extractions |-> <<>>]
  ELSE LET extracted == extractTextFromFile(doc.storedPath, doc.mimeType)
       IN  [text |-> IF extracted.st = "throw" THEN <<>> ELSE extracted.s,
            extractions |-> <<[id |-> doc.id, path |-> doc.storedPath,
                               mimeType |-> doc.mimeType]>>]

\* getDocumentText: what it returns.
getDocumentText(doc) == readDocumentText(doc).text

\* The calls of extractTextFromFile that the loop over the candidates
\* makes, in order.
extractionCalls(docs) ==
  Flatten([i \in 1..Len(docs) |-> readDocumentText(docs[i]).extractions])

\* `${doc.id}_chunk_${i}`
ChunkIdOf(id, i) == <<id, "_chunk_", i>>

ScoredChunk(doc, i, chunk, kws) ==
  [chunkId |-> ChunkIdOf(doc.id, i), docId |-> doc.id,
   docName |-> doc.originalName, text |-> chunk.text,
   startChar |-> chunk.startChar, endChar |-> chunk.endChar,
   score |-> scoreChunk(chunk.text, kws)]

\* A plausible variant: the loop over the chunks stops one short.
chunksOfDoc_DropLast(doc, kws) ==
  LET txt == getDocumentText(doc)
      chunks == chunkDocumentText(txt)
  IN  IF Len(Trim(txt)) = 0 THEN <<>>
      ELSE [i \in 1..(Len(chunks) - 1) |-> ScoredChunk(doc, i - 1, chunks[i], kws)]

\* One round of the loop over the candidates: the scored chunks of a
\* document, none for a blank text.  Nothing in the round throws: the
\* extraction failure is caught in getDocumentText.
chunksOfDoc(doc, kws) ==
  LET txt == getDocumentText(doc)
      chunks == chunkDocumentText(txt)
  IN  IF Len(Trim(txt)) = 0 THEN <<>>
      ELSE [i \in 1..Len(chunks) |-> ScoredChunk(doc, i - 1, chunks[i], kws)]

\* a < b for two scores.
ScoreLess(a, b) == a.num * b.den < b.num * a.den

RECURSIVE sortLoop(_, _, _)
sortLoop(chunks, k, sorted) ==
  IF k > Len(chunks) THEN sorted
  ELSE LET ahead == SelectSeq(sorted,
                      LAMBDA j : ~ScoreLess(chunks[j].score, chunks[k].score))
           behind == SelectSeq(sorted,
                      LAMBDA j : ScoreLess(chunks[j].score, chunks[k].score))
       IN  sortLoop(chunks, k + 1, ahead \o <<k>> \o behind)

\* A plausible variant: the comparator a.score - b.score, ascending.
sortByScore_Ascending(chunks) == Reverse(sortLoop(chunks, 1, <<>>))

\* allChunks.sort((a, b) => b.score - a.score), a stable sort: the positions
\* in allChunks in the order the sort leaves them.
sortByScore(chunks) == sortLoop(chunks, 1, <<>>)

NoRetrieval ==
  [st |-> "none", chunks |-> <<>>, questionKeywords |-> <<>>,
   searchQuery |-> <<>>, searched |-> FALSE, listed |-> FALSE,
   candidateDocs |-> <<>>, allChunks |-> <<>>, picked |-> <<>>]

\* retrieveChunks: its result (st "returned" with chunks, or "rejected")
\* with the values of its local variables.
retrieveChunks(q, docLimit, topK, docId, fail, rank) ==
  LET kws == extractKeywords(q)
      sel == selectCandidates(kws, docLimit, docId, fail, rank)
      allChunks == Flatten([i \in 1..Len(sel.docs) |-> chunksOfDoc(sel.docs[i], kws)])
      picked == Take(sortByScore(allChunks), topK)
  IN  [st |-> IF sel.st = "throw" THEN "rejected" ELSE "returned",
       chunks |-> IF sel.st = "ok"
                  THEN [i \in 1..Len(picked) |-> allChunks[picked[i]]]
                  ELSE <<>>,
       questionKeywords |-> kws,
       searchQuery |-> sel.searchQuery,
       searched |-> sel.searched,
       listed |-> sel.listed,
       candidateDocs |-> sel.docs,
       allChunks |-> allChunks,
       picked |-> picked]

NoRequest ==
  [question |-> <<>>, docLimit |-> 0, topK |-> 0, docId |-> NullId,
   fail |-> {}, rank |-> <<>>]

\* A plausible variant of the call: the two limits in the other order.
callRetrieveChunks_LimitsSwapped(req) ==
  retrieveChunks(req.question, req.topK, req.docLimit, req.docId, req.fail, req.rank)

\* The call retrieveChunks(question, safeDocLimit, safeTopK, docId).
callRetrieveChunks(req) ==
  retrieveChunks(req.question, req.docLimit, req.topK, req.docId, req.fail, req.rank)

(***************************************************************************)
(* Inputs of the citation validator.                                       *)
(***************************************************************************)
SeqsUpTo(S, n) == UNION {[1..k -> S] : k \in 0..n}

Undefined == NotNum("undefined")

NoId == NotId("undefined")

NoQuote == NotStr("undefined")

\* A text longer than the quote cap whose character at the cap is a space.
LongText == Rep("a", QuoteMaxLen - 1) \o <<" ">> \o Rep("b", 3)

\* Two overlapping chunks of document d1, a chunk of document d2, and a chunk
\* of document d4 whose text is longer than the quote cap.
K1 == Chunk("d1_chunk_0", "d1", "one.txt", 0, Str(<<"a", "b", " ", "\n", "b", "a">>))

K2 == Chunk("d1_chunk_1", "d1", "one.txt", 4, Str(<<"b", "a", "\t", "a", " ", "b">>))

K3 == Chunk("d2_chunk_0", "d2", "two.txt", 0, Str(<<"b", " ", "a">>))

KLong == Chunk("d4_chunk_0", "d4", "long.txt", 0, Str(LongText))

\* A chunk whose text is not a string.
K4 == [Chunk("d3_chunk_0", "d3", "three.pdf", 0, Str(<<>>)) EXCEPT !.text = NotStr("number")]

ChunkPool == {K1, K2, K3}

\* What a claim says about its document and range: nothing, a range inside
\* K1, a range inside K2 only, a range of a document that does not exist.
ClaimRanges ==
  {<<NoId, Undefined, Undefined>>,
   <<Id("d1"), Num(1), Num(3)>>,
   <<Id("d1"), Num(5), Num(8)>>,
   <<Id("fake_doc"), Num(300), Num(400)>>}

\* What a claim says about its chunk: nothing, a retrieved chunk, a chunk
\* that does not exist.
ClaimChunkIds == {NoId, Id("d1_chunk_0"), Id("fake_chunk")}

ClaimPool == {Claim(k, r[1], r[2], r[3], NoQuote) : k \in ClaimChunkIds, r \in ClaimRanges}

\* Claims that carry a quote: absent, empty, whitespace only, short with
\* inner whitespace, longer than the cap, not a string.
QuotePool ==
  {Str(<<>>), Str(<<" ", "\t">>), Str(<<" ", "a", "\n", " ", "b", "\t">>),
   Str(LongText), NotStr("number")}

QuoteClaimPool ==
  {Claim(Id(k), NoId, r[1], r[2], q) :
     k \in {"d1_chunk_0", "d4_chunk_0"},
     r \in {<<Undefined, Undefined>>, <<Num(1), Num(3)>>},
     q \in QuotePool}

\* Ill-typed claims: null, a number, ids and offsets of the wrong type.
IllClaimPool ==
  {NonObjectClaim("null"), NonObjectClaim("number"),
   Claim(NotId("number"), NotId("number"), Num(1), Num(3), NoQuote),
   Claim(NoId, Id("d1"), NotNum("string"), NotNum("nan"), NotStr("number")),
   Claim(Id("d1_chunk_0"), NoId, NotNum("string"), NotNum("nan"), NotStr("number")),
   Claim(Id("d3_chunk_0"), NoId, Undefined, Undefined, NoQuote)}

Array(a) == [t |-> "array", a |-> a]

NotArray(tag) == [t |-> tag, a |-> <<>>]

\* The values of maxCitations: absent, a count, and values that are no
\* number.
MaxCitationsValues ==
  <<Undefined>> \o [n \in 1..MaxCitArg |-> Num(n)]
    \o <<Num(0), NotNum("null"), NotNum("string"), NotNum("symbol")>>

\* Well-typed calls: claims that match by chunkId, by range or not at all.
WellTypedInputs(maxCit) ==
  IF maxCit.t \in {"undefined", "number"}
  THEN [llm : {NotArray("null")} \cup {Array(a) : a \in SeqsUpTo(ClaimPool, MaxClaims)},
        retrieved : {Array(a) : a \in SeqsUpTo(ChunkPool, MaxChunks)},
        maxCit : {maxCit}]
  ELSE {}

\* Calls whose claims carry quotes.  The quote of a citation depends on its
\* claim and its chunk alone: one claim at most.
QuoteInputs(maxCit) ==
  IF maxCit.t = "undefined"
  THEN [llm : {Array(a) : a \in SeqsUpTo(QuoteClaimPool, 1)},
        retrieved : {Array(a) : a \in SeqsUpTo({K1, KLong}, MaxChunks)},
        maxCit : {maxCit}]
  ELSE {}

\* Calls with ill-typed arguments.
IllTypedInputs(maxCit) ==
  IF maxCit \in {Num(1), NotNum("null"), NotNum("string"), NotNum("symbol")}
  THEN [llm : {NotArray("string")}
              \cup {Array(a) : a \in SeqsUpTo(IllClaimPool, MaxClaims)},
        retrieved : {NotArray("undefined")}
                    \cup {Array(a) : a \in SeqsUpTo({K1, K4, NullChunk}, MaxChunks)},
        maxCit : {maxCit}]
  ELSE {}

BuildInputs(maxCit) ==
  WellTypedInputs(maxCit) \cup QuoteInputs(maxCit) \cup IllTypedInputs(maxCit)

\* Arguments of sanitizeQuote: a run of letters, as long as the cap or a
\* little shorter or longer, between two short affixes that may hold
\* whitespace.
Affixes == SeqsUpTo({"b", " ", "\n", "\t"}, MaxAffix)

SanitizeTexts ==
  {Str(p \o Rep("a", n) \o q) :
     p \in Affixes, q \in Affixes, n \in {0, 1} \cup (QuoteMaxLen - 3)..QuoteMaxLen}
  \cup {NotStr("undefined"), NotStr("number")}

(***************************************************************************)
(* geminiService: the retry hint of an error.                              *)
(***************************************************************************)
Digits == <<"0", "1", "2", "3", "4", "5", "6", "7", "8", "9">>

IsDigit(ch) == \E d \in 1..Len(Digits) : Digits[d] = ch

DigitOf(ch) == (CHOOSE d \in 1..Len(Digits) : Digits[d] = ch) - 1

IsDigits(s) == Len(s) > 0 /\ \A i \in 1..Len(s) : IsDigit(s[i])

RECURSIVE DecimalValue(_)
DecimalValue(s) ==
  IF Len(s) = 0 THEN 0
  ELSE 10 * DecimalValue(SubSeq(s, 1, Len(s) - 1)) + DigitOf(s[Len(s)])

\* Number(s) for a trimmed string of the model: '' is 0, digits with an
\* optional sign are their number, anything else is NaN (t "NaN").
NumberOf(s) ==
  IF Len(s) = 0 THEN Num(0)
  ELSE IF IsDigits(s) THEN Num(DecimalValue(s))
  ELSE IF s[1] = "-" /\ IsDigits(Tail(s)) THEN Num(0 - DecimalValue(Tail(s)))
  ELSE NotNum("NaN")

NoSeconds == NotNum("null")

\* parseRetryDelaySeconds: seconds, or null.  A finite number is itself; a
\* string "<digits>s" is its digits; any other string is Number(string)
\* if that is finite.  The numbers of the model are whole seconds.
parseRetryDelaySeconds(value) ==
  IF value.t \in {"null", "undefined"} THEN NoSeconds
  ELSE IF value.t = "number" THEN value
  ELSE IF value.t # "string" THEN NoSeconds
  ELSE LET s == Trim(value.s)
           front == SubSeq(s, 1, Len(s) - 1)
       IN  IF Len(s) >= 2 /\ s[Len(s)] \in {"s", "S"} /\ IsDigits(front)
           THEN Num(DecimalValue(front))
           ELSE IF NumberOf(s).t = "number" THEN NumberOf(s)
           ELSE NoSeconds

\* An element of err.errorDetails.
Detail(type, retryDelay) == [type |-> type, retryDelay |-> retryDelay]

\* An error that generateContent throws: err.status, err.errorDetails (an
\* array, or absent: NotArray), err.retryAfter, and whether err.message
\* holds 'GEMINI_API_KEY'.
ApiError(status, errorDetails, retryAfter) ==
  [t |-> "error", status |-> status, errorDetails |-> errorDetails,
   retryAfter |-> retryAfter, message |-> "api"]

NoError ==
  [t |-> "null", status |-> 0, errorDetails |-> NotArray("undefined"),
   retryAfter |-> NotNum("undefined"), message |-> ""]

\* new Error('...'): no status, no details.
PlainError(message) ==
  [t |-> "error", status |-> 0, errorDetails |-> NotArray("undefined"),
   retryAfter |-> NotNum("undefined"), message |-> message]

\* The loop over err.errorDetails from detail i on: the first RetryInfo
\* whose retryDelay parses.
RECURSIVE retryInfoFrom(_, _)
retryInfoFrom(details, i) ==
  IF i > Len(details) THEN NoSeconds
  ELSE LET sec == parseRetryDelaySeconds(details[i].retryDelay)
       IN  IF details[i].type = "google.rpc.RetryInfo" /\ sec.t = "number"
           THEN sec
           ELSE retryInfoFrom(details, i + 1)

\* x || y for the hint values: 0, '', null and undefined are falsy.
TruthyHint(v) ==
  IF v.t = "number" THEN v.n # 0
  ELSE IF v.t = "string" THEN v.s # <<>>
  ELSE v.t \notin {"null", "undefined", "NaN"}

\* getRetryAfterSeconds: the hint of the details, else of err.retryAfter;
\* the errors of the model carry no response headers.
getRetryAfterSeconds(err) ==
  LET fromDetails == IF err.errorDetails.t = "array"
                     THEN retryInfoFrom(err.errorDetails.a, 1)
                     ELSE NoSeconds
  IN  IF fromDetails.t = "number" THEN fromDetails
      ELSE parseRetryDelaySeconds(IF TruthyHint(err.retryAfter) THEN err.retryAfter
                                  ELSE NotNum("undefined"))

\* retryAfter != null && retryAfter > 0 && retryAfter <= 5
RetryAllowed(err) ==
  LET retryAfter == getRetryAfterSeconds(err)
  IN  retryAfter.t = "number" /\ retryAfter.n > 0 /\ retryAfter.n <= RetryMaxSeconds

(***************************************************************************)
(* geminiService: the candidate models.                                    *)
(***************************************************************************)
\* A model name is the sequence of the parts that rankModel looks for.
Gemini3Flash == <<"gemini-3", "flash">>

Gemini2Flash == <<"gemini-2", "flash">>

Gemini15FlashLatest == <<"gemini-1.5", "flash", "latest">>

Gemini15Flash == <<"gemini-1.5", "flash">>

Gemini15Pro == <<"gemini-1.5", "pro">>

EmbeddingModel == <<"embedding">>

\* m.includes(part)
HasPart(name, part) == \E i \in 1..Len(name) : name[i] = part

PartScore(name, part, points) == IF HasPart(name, part) THEN points ELSE 0

rankModel(name) ==
  PartScore(name, "vision", -5) + PartScore(name, "embedding", -10)
  + PartScore(name, "flash", 5) + PartScore(name, "gemini-3", 6)
  + PartScore(name, "gemini-2", 4) + PartScore(name, "gemini-1.5", 2)
  + (IF HasPart(name, "preview") \/ HasPart(name, "exp") THEN -2 ELSE 0)
  + PartScore(name, "latest", 1)

\* discovered.slice().sort((a, b) => rankModel(b) - rankModel(a)), a stable
\* sort: from name k on, with the names sorted so far.
RECURSIVE rankLoop(_, _, _)
rankLoop(names, k, sorted) ==
  IF k > Len(names) THEN sorted
  ELSE LET ahead == SelectSeq(sorted, LAMBDA m : rankModel(m) >= rankModel(names[k]))
           behind == SelectSeq(sorted, LAMBDA m : rankModel(m) < rankModel(names[k]))
       IN  rankLoop(names, k + 1, ahead \o <<names[k]>> \o behind)

\* The loop that fills candidates from the ranked names, up to the cap.
RECURSIVE pushRanked(_, _, _)
pushRanked(ranked, k, candidates) ==
  IF k > Len(ranked) THEN candidates
  ELSE LET pushed == IF \E j \in 1..Len(candidates) : candidates[j] = ranked[k]
                     THEN candidates
                     ELSE Append(candidates, ranked[k])
       IN  IF Len(pushed) >= CandidateCap THEN pushed
           ELSE pushRanked(ranked, k + 1, pushed)

\* Array.from(new Set(list))
RECURSIVE Dedupe(_)
Dedupe(list) ==
  IF Len(list) = 0 THEN <<>>
  ELSE LET front == Dedupe(SubSeq(list, 1, Len(list) - 1))
           last == list[Len(list)]
       IN  IF \E j \in 1..Len(front) : front[j] = last THEN front
           ELSE Append(front, last)

\* The result of listModelsFromAPI: the names, or a failure.
Listing(ok, models) == [ok |-> ok, models |-> models]

\* discoveredModelsCache.models after the refresh of an expired cache.
refreshCache(cache, expired, listing) ==
  IF expired /\ listing.ok THEN listing.models ELSE cache

\* getModelCandidates, given the models of the refreshed cache; configured
\* is <<>> when GEMINI_MODEL is not set.
getModelCandidates(configured, discovered) ==
  IF Len(discovered) > 0
  THEN pushRanked(rankLoop(discovered, 1, <<>>), 1,
                  IF configured # <<>> /\ \E j \in 1..Len(discovered) : discovered[j] = configured
                  THEN <<configured>> ELSE <<>>)
  ELSE Dedupe(SelectSeq(<<configured, Gemini3Flash, Gemini2Flash,
                          Gemini15FlashLatest, Gemini15Flash>>,
                        LAMBDA m : m # <<>>))

(***************************************************************************)
(* geminiService: the text of a response and its parsing.                  *)
(***************************************************************************)
\* The JSON in a response text: an object with these properties; an object
\* cut off after its answer (no JSON.parse accepts it); a scalar (null, or
\* a number other than 0); none.
JsonObject(answer, citations, confidence) ==
  [kind |-> "object", answer |-> answer, citations |-> citations,
   confidence |-> confidence]

JsonTruncated(answer) ==
  [kind |-> "truncated", answer |-> answer, citations |-> NotArray("undefined"),
   confidence |-> NotStr("undefined")]

JsonScalar(tag) ==
  [kind |-> tag, answer |-> NotStr("undefined"),
   citations |-> NotArray("undefined"), confidence |-> NotStr("undefined")]

JsonNone == JsonScalar("none")

\* A response text: prose, then JSON, the whole in code fences or not.
ResponseText(fenced, lead, json) == [fenced |-> fenced, lead |-> lead, json |-> json]

\* The characters of the JSON in the text; the source of an object is kept
\* as one element.
JsonSource(json) ==
  IF json.kind = "none" THEN <<>>
  ELSE IF json.kind = "null" THEN <<"n", "u", "l", "l">>
  ELSE IF json.kind = "number" THEN <<"5">>
  ELSE IF json.kind = "truncated" THEN <<"{...">>
  ELSE <<"{...}">>

\* stripCodeFences: the fences go, the rest is trimmed.
stripCodeFences(txt) == Trim(txt.lead \o JsonSource(txt.json))

\* What JSON.parse gives for the JSON of a text.
ParsedJson(json) ==
  [t |-> json.kind, answer |-> json.answer, citations |-> json.citations,
   confidence |-> json.confidence, parseError |-> FALSE,
   model |-> <<>>]

JsonNull == ParsedJson(JsonScalar("null"))

\* tryParseJsonFromText: null for an empty text; JSON.parse of the whole
\* text; else JSON.parse of the part from the first '{' to the last '}';
\* else null.
tryParseJsonFromText(txt) ==
  IF Len(stripCodeFences(txt)) = 0 THEN JsonNull
  ELSE IF Len(Trim(txt.lead)) = 0 /\ txt.json.kind \in {"object", "null", "number"}
  THEN ParsedJson(txt.json)
  ELSE IF txt.json.kind = "object" THEN ParsedJson(txt.json)
  ELSE JsonNull

\* if (!parsedResponse): null is falsy; an object and the number are truthy.
TruthyJson(parsed) == parsed.t \in {"object", "number"}

\* normalizeAnswerText, called for a text that gave no truthy JSON: the
\* answer string that the regular expression finds in a cut-off object,
\* else the cleaned text.
normalizeAnswerText(txt) ==
  IF txt.json.kind = "truncated" /\ txt.json.answer.t = "string"
  THEN Trim(txt.json.answer.s)
  ELSE stripCodeFences(txt)

(***************************************************************************)
(* geminiService: generateAnswer.                                          *)
(***************************************************************************)
Low == <<"low">>

Medium == <<"medium">>

High == <<"high">>

KeyMissing == "GEMINI_API_KEY is not set in environment variables"

MissingAnswer == PlainError("LLM response missing \"answer\" field")

\* What generateContent gives: a response with this text, or this error.
TextOutcome(txt) == [k |-> "text", text |-> txt, err |-> NoError]

ErrorOutcome(err) ==
  [k |-> "error", text |-> ResponseText(FALSE, <<>>, JsonNone), err |-> err]

\* The local variables of generateAnswer with the state of the module:
\* the position (pc), the models of discoveredModelsCache, modelCandidates,
\* the index of modelName in it, lastErr, the calls of generateContent so
\* far, and the value returned or the error thrown.
NoGen ==
  [pc |-> "idle", round |-> 0, cache |-> <<>>, candidates |-> <<>>, i |-> 0,
   lastErr |-> NoError, calls |-> <<>>, result |-> JsonNull,
   thrown |-> NoError]

\* The outer catch: an error whose message holds 'GEMINI_API_KEY' is
\* replaced, any other is thrown as it is.
rethrow(err) ==
  IF err.message = KeyMissing THEN PlainError("GEMINI_API_KEY is not set") ELSE err

\* The start of the call: initializeGemini, getModelCandidates, and the loop
\* at its first candidate.
startGenerate(g, apiKey, configured, expired, listing) ==
  LET cache == refreshCache(g.cache, expired, listing)
      fresh == [NoGen EXCEPT !.round = g.round + 1, !.cache = g.cache]
  IN  IF ~apiKey
      THEN [fresh EXCEPT !.pc = "thrown", !.thrown = rethrow(PlainError(KeyMissing))]
      ELSE [fresh EXCEPT !.pc = "attempt", !.cache = cache, !.i = 1,
                         !.candidates = getModelCandidates(configured, cache)]

\* The loop goes on: the next candidate, or after the last one the throw of
\* lastErr.
nextCandidate(g) ==
  IF g.i < Len(g.candidates) THEN [g EXCEPT !.pc = "attempt", !.i = g.i + 1]
  ELSE [g EXCEPT !.pc = "thrown",
                 !.thrown = rethrow(IF g.lastErr.t = "error" THEN g.lastErr
                                    ELSE PlainError("LLM failed to generate an answer"))]

\* The value returned for a text that gave no JSON.
parseFallback(txt, modelName) ==
  [t |-> "object", answer |-> Str(normalizeAnswerText(txt)),
   citations |-> Array(<<>>), confidence |-> Str(Low), parseError |-> TRUE,
   model |-> modelName]

\* The parsed response with its defaults filled in; the assignments to the
\* properties of a number leave no trace.
completed(parsed, modelName) ==
  IF parsed.t # "object" THEN parsed
  ELSE [parsed EXCEPT
          !.citations = IF @.t = "array" THEN @ ELSE Array(<<>>),
          !.confidence = IF TruthyStr(@) THEN @ ELSE Str(Medium),
          !.model = modelName]

\* A call of generateContent on the current candidate is on record, with
\* whether it gave a text that yields no JSON.
Called(g, retry, outcome) ==
  [g EXCEPT !.calls =
     Append(@, [i |-> g.i, retry |-> retry,
                unparsed |-> /\ outcome.k = "text"
                             /\ ~TruthyJson(tryParseJsonFromText(outcome.text))])]

Return(g, value) == [g EXCEPT !.pc = "returned", !.result = value]

\* A plausible variant: a text that gives no JSON is a failed attempt.
afterGenerateContent_ParseFails(g, outcome) ==
  LET modelName == g.candidates[g.i]
      parsed == tryParseJsonFromText(outcome.text)
      failed == [Called(g, FALSE, outcome) EXCEPT !.lastErr = outcome.err]
  IN  IF outcome.k = "text"
      THEN (IF ~TruthyJson(parsed) \/ ~TruthyStr(parsed.answer)
            THEN nextCandidate([Called(g, FALSE, outcome) EXCEPT !.lastErr = MissingAnswer])
            ELSE Return(Called(g, FALSE, outcome), completed(parsed, modelName)))
      ELSE IF outcome.err.status = 429 /\ RetryAllowed(outcome.err)
      THEN [failed EXCEPT !.pc = "retry"]
      ELSE nextCandidate(failed)

\* The first attempt on the current candidate, from the call of
\* generateContent to the return, the retry or the next candidate.
afterGenerateContent(g, outcome) ==
  LET modelName == g.candidates[g.i]
      parsed == tryParseJsonFromText(outcome.text)
      failed == [Called(g, FALSE, outcome) EXCEPT !.lastErr = outcome.err]
  IN  IF outcome.k = "text"
      THEN (IF ~TruthyJson(parsed)
            THEN Return(Called(g, FALSE, outcome), parseFallback(outcome.text, modelName))
            ELSE IF ~TruthyStr(parsed.answer)
            THEN nextCandidate([Called(g, FALSE, outcome) EXCEPT !.lastErr = MissingAnswer])
            ELSE Return(Called(g, FALSE, outcome), completed(parsed, modelName)))
      ELSE IF outcome.err.status = 429 /\ RetryAllowed(outcome.err)
      THEN [failed EXCEPT !.pc = "retry"]
      ELSE nextCandidate(failed)

\* A plausible variant: a failed retry is retried, on the same model.
afterRetry_Again(g, outcome) ==
  LET modelName == g.candidates[g.i]
      parsed == tryParseJsonFromText(outcome.text)
  IN  IF outcome.k = "text"
      THEN (IF ~TruthyJson(parsed)
            THEN Return(Called(g, TRUE, outcome), parseFallback(outcome.text, modelName))
            ELSE Return(Called(g, TRUE, outcome), completed(parsed, modelName)))
      ELSE Called(g, TRUE, outcome)

\* The retry on the same candidate after the sleep: it returns whatever
\* parses; its error is dropped and the loop goes on.
afterRetry(g, outcome) ==
  LET modelName == g.candidates[g.i]
      parsed == tryParseJsonFromText(outcome.text)
  IN  IF outcome.k = "text"
      THEN (IF ~TruthyJson(parsed)
            THEN Return(Called(g, TRUE, outcome), parseFallback(outcome.text, modelName))
            ELSE Return(Called(g, TRUE, outcome), completed(parsed, modelName)))
      ELSE nextCandidate(Called(g, TRUE, outcome))

(***************************************************************************)
(* What the API answers to generateContent, and the models it lists.       *)
(***************************************************************************)
RetryInfo == "google.rpc.RetryInfo"

NoDetails == NotArray("undefined")

\* Not found; a server error; an error without status; too many requests
\* with a hint of 1s in the details, of 6s in the second detail, of 5 in
\* retryAfter, of '0' in retryAfter behind a detail that does not parse,
\* and without hint.
ApiErrors ==
  {ApiError(404, NoDetails, Undefined),
   ApiError(500, NoDetails, Undefined),
   ApiError(0, NoDetails, Undefined),
   ApiError(429, Array(<<Detail(RetryInfo, Str(<<"1", "s">>))>>), Undefined),
   ApiError(429, Array(<<Detail("google.rpc.Help", Str(<<"1", "s">>)),
                         Detail(RetryInfo, Str(<<"6", "s">>))>>), Num(1)),
   ApiError(429, NoDetails, Num(5)),
   ApiError(429, Array(<<Detail(RetryInfo, Str(<<"s", "o", "o", "n">>))>>),
            Str(<<"0">>)),
   ApiError(429, NoDetails, Undefined)}

\* A claimed citation of the first characters of document d1.
CitedD1 == Claim(NoId, Id("d1"), Num(0), Num(3), NoQuote)

\* A claimed citation of a document that does not exist.
CitedNowhere == Claim(NoId, Id("d9"), Num(0), Num(3), NoQuote)

\* Fenced JSON with everything; JSON after prose with the answer only; JSON
\* without answer; JSON with an empty answer; prose; a cut-off object; null;
\* a number; nothing between the fences.
ApiTexts ==
  {ResponseText(TRUE, <<>>, JsonObject(Str(Cat), Array(<<CitedNowhere, CitedD1>>), Str(High))),
   ResponseText(FALSE, Fox \o Sp, JsonObject(Str(Owl), NotArray("undefined"), NotStr("undefined"))),
   ResponseText(FALSE, <<>>, JsonObject(NotStr("undefined"), Array(<<CitedD1>>), Str(High))),
   ResponseText(FALSE, <<>>, JsonObject(Str(<<>>), Array(<<>>), NotStr("undefined"))),
   ResponseText(FALSE, Cat \o Sp, JsonNone),
   ResponseText(TRUE, <<>>, JsonTruncated(Str(Sp \o Owl))),
   ResponseText(FALSE, <<>>, JsonScalar("null")),
   ResponseText(FALSE, <<>>, JsonScalar("number")),
   ResponseText(TRUE, <<>>, JsonNone)}

ApiOutcomes ==
  {TextOutcome(t) : t \in ApiTexts} \cup {ErrorOutcome(e) : e \in ApiErrors}

\* GEMINI_MODEL: not set, or a model.
ConfiguredModels == {<<>>, Gemini15Pro}

\* listModelsFromAPI: it fails; it lists nothing; it lists these models.
Listings ==
  {Listing(FALSE, <<>>), Listing(TRUE, <<>>),
   Listing(TRUE, <<Gemini15Pro, Gemini2Flash>>),
   Listing(TRUE, <<EmbeddingModel>>)}

(***************************************************************************)
(* qaController: answerQuestion.                                           *)
(***************************************************************************)
\* The leading digits of s.
RECURSIVE DigitPrefix(_)
DigitPrefix(s) ==
  IF Len(s) = 0 \/ ~IsDigit(s[1]) THEN <<>> ELSE <<s[1]>> \o DigitPrefix(Tail(s))

\* parseInt of a string without leading whitespace and sign: its leading
\* digits, NaN if there are none.
parseDigits(s) ==
  IF Len(DigitPrefix(s)) = 0 THEN NotNum("NaN") ELSE Num(DecimalValue(DigitPrefix(s)))

\* parseInt(v): a whole number is itself; a string is parsed after its
\* leading whitespace and sign; null, booleans and NaN give NaN.
parseIntOf(v) ==
  IF v.t = "number" THEN v
  ELSE IF v.t # "string" THEN NotNum("NaN")
  ELSE LET s == Trim(v.s)
       IN  IF Len(s) > 0 /\ s[1] = "-"
           THEN (IF parseDigits(Tail(s)).t = "number"
                 THEN Num(0 - parseDigits(Tail(s)).n)
                 ELSE NotNum("NaN"))
           ELSE IF Len(s) > 0 /\ s[1] = "+" THEN parseDigits(Tail(s))
           ELSE parseDigits(s)

\* A plausible variant: Math.max(..., 1) without the Math.min.
clampLimit_NoCap(raw, fallback, cap) ==
  LET given == IF raw.t = "undefined" THEN Num(fallback) ELSE raw
      parsed == parseIntOf(given)
  IN  Max2(IF parsed.t = "number" /\ parsed.n # 0 THEN parsed.n ELSE fallback, 1)

\* Math.min(Math.max(parseInt(raw) || fallback, 1), cap), raw taking the
\* default fallback when the body has no such property.
clampLimit(raw, fallback, cap) ==
  LET given == IF raw.t = "undefined" THEN Num(fallback) ELSE raw
      parsed == parseIntOf(given)
  IN  Min2(Max2(IF parsed.t = "number" /\ parsed.n # 0 THEN parsed.n ELSE fallback,
                1),
           cap)

safeTopK(b) == clampLimit(b.topK, TopKDefault, TopKCap)

safeDocLimit(b) == clampLimit(b.docLimit, DocLimitDefault, DocLimitCap)

\* !question || !question.trim(): "missing" for a question that is absent,
\* empty or blank; "throw" for one that has no trim method.
questionCheck(b) ==
  IF b.question.t \in {"undefined", "null"} THEN "missing"
  ELSE IF b.question.t # "string" THEN "throw"
  ELSE IF Len(Trim(b.question.s)) = 0 THEN "missing"
  ELSE "ok"

\* A plausible variant: the docId of the body is passed on.
qaRequest_WithDocId(b, fail, rank) ==
  [question |-> Trim(b.question.s), docLimit |-> safeDocLimit(b),
   topK |-> safeTopK(b), docId |-> b.docId, fail |-> fail, rank |-> rank]

\* The arguments of retrieveChunks(question.trim(), safeDocLimit, safeTopK,
\* null), with the collaborators that fail and the order of the search.
qaRequest(b, fail, rank) ==
  [question |-> Trim(b.question.s), docLimit |-> safeDocLimit(b),
   topK |-> safeTopK(b), docId |-> NullId, fail |-> fail, rank |-> rank]

\* The chunks of retrieveChunks as buildBasedOnDocs reads them.
asRetrieved(chunks) ==
  Array([i \in 1..Len(chunks) |->
           [t |-> "object", chunkId |-> chunks[i].chunkId,
            docId |-> chunks[i].docId, docName |-> chunks[i].docName,
            startChar |-> chunks[i].startChar, endChar |-> chunks[i].endChar,
            text |-> Str(chunks[i].text)]])

\* 'Bilmiyorum. Yeterli kaynak bulunamadi.', its first word one element.
Bilmiyorum == <<"Bilmiyorum", ".", " ", "Yeterli kaynak bulunamadi.">>

\* One line of the fallback answer: the name of the document and the quote.
FallbackLine(c) ==
  <<"- ", c.docName, ": ">>
    \o (IF Len(Trim(c.quote)) > 0 THEN <<"\"">> \o Trim(c.quote) \o <<"\"">>
        ELSE <<"(alinti yok)">>)

\* buildRetrievalFallbackAnswer: the citations are an array here.
buildRetrievalFallbackAnswer(citations) ==
  IF Len(citations) = 0 THEN Bilmiyorum
  ELSE <<"LLM su anda yanit uretemedi.">>
         \o Flatten([i \in 1..Min2(Len(citations), FallbackCitations) |->
                       FallbackLine(citations[i])])
         \o <<"Bu alintilara gore ...">>

\* coercePlainAnswerText: '' for null and undefined, else the trimmed
\* string; no answer of the model is text that begins with '{' and holds
\* "answer".
coercePlainAnswerText(value) ==
  IF value.t = "string" THEN Trim(value.s) ELSE <<>>

\* The body of a response, or the error passed to next (code).
Response(status, code, q, answer, confidence, based, retrieved, llm) ==
  [status |-> status, code |-> code, question |-> q, answer |-> answer,
   confidence |-> confidence, based_on_docs |-> based, retrieval |-> retrieved,
   llm |-> llm]

NoLimits == [docLimit |-> 0, topK |-> 0]

\* The response has no property llm.
NoLlm == [present |-> FALSE, used |-> FALSE, error |-> "", model |-> <<>>]

NoResponse == Response(0, "", <<>>, <<>>, <<>>, <<>>, NoLimits, NoLlm)

ErrorResponse(status, code) ==
  Response(status, code, <<>>, <<>>, <<>>, <<>>, NoLimits, NoLlm)

EchoedLimits(req) == [docLimit |-> req.docLimit, topK |-> req.topK]

\* The response when retrieveChunks gave no chunk.
noChunksResponse(req) ==
  Response(200, "", req.question, Bilmiyorum, Low, <<>>, EchoedLimits(req), NoLlm)

\* The fallback response over the citations basedOnDocsFallback.
llmErrorResponseWith(req, basedOnDocsFallback) ==
  Response(200, "", req.question,
           buildRetrievalFallbackAnswer(basedOnDocsFallback), Low,
           basedOnDocsFallback, EchoedLimits(req),
           [present |-> TRUE, used |-> FALSE, error |-> "LLM_ERROR",
            model |-> <<>>])

\* A plausible variant, the one the test's name describes: the failure of
\* the generator is passed on as 502.
llmErrorResponse_BadGateway(req, chunks) == ErrorResponse(502, "LLM_ERROR")

\* The response after generateAnswer threw: the fallback citations of
\* buildBasedOnDocs without claims.
llmErrorResponse(req, chunks) ==
  llmErrorResponseWith(req, buildBasedOnDocs(NotArray("null"), asRetrieved(chunks),
                                             Num(FallbackCitations)).list)

\* The response after generateAnswer returned geminiResponse.
answerResponse(req, chunks, geminiResponse) ==
  Response(200, "", req.question,
           coercePlainAnswerText(geminiResponse.answer),
           IF TruthyStr(geminiResponse.confidence)
           THEN geminiResponse.confidence.s ELSE Medium,
           buildBasedOnDocs(IF geminiResponse.citations.t = "array"
                            THEN geminiResponse.citations ELSE NotArray("null"),
                            asRetrieved(chunks), Num(FallbackCitations)).list,
           EchoedLimits(req),
           [present |-> TRUE, used |-> TRUE, error |-> "",
            model |-> geminiResponse.model])

\* What answerQuestion sends once generateAnswer has settled as g.
qaRespond(req, chunks, g) ==
  IF g.pc = "thrown" THEN llmErrorResponse(req, chunks)
  ELSE answerResponse(req, chunks, g.result)

\* A plausible variant: no early return, the generator is asked although
\* there is no chunk.
afterRetrieval_NoEarlyReturn(req, retrieved) ==
  IF retrieved.st = "rejected" THEN ErrorResponse(500, "INTERNAL_ERROR")
  ELSE NoResponse

\* What answerQuestion sends right after retrieveChunks: the error of a
\* rejection through the outer catch, the early return for no chunk, and
\* nothing yet (NoResponse) when it goes on to generateAnswer.
afterRetrieval(req, retrieved) ==
  IF retrieved.st = "rejected" THEN ErrorResponse(500, "INTERNAL_ERROR")
  ELSE IF Len(retrieved.chunks) = 0 THEN noChunksResponse(req)
  ELSE NoResponse

\* generateAnswer run to its end: the calls of generateContent are answered
\* by the outcomes of script in turn, over and over.
RECURSIVE runGenerate(_, _)
runGenerate(g, script) ==
  LET outcome == script[(Len(g.calls) % Len(script)) + 1]
  IN  IF g.pc = "attempt" THEN runGenerate(afterGenerateContent(g, outcome), script)
      ELSE IF g.pc = "retry" THEN runGenerate(afterRetry(g, outcome), script)
      ELSE g

(***************************************************************************)
(* docsController.uploadDocument                                           *)
(***************************************************************************)
\* An empty uploads directory.
NoFiles == <<>>

\* multer's diskStorage: the n-th upload gets a file name of its own.
StoredPath(n) == <<"u", "/", n>>

writeFile(files, path, bytes) == (path :> bytes) @@ files

\* fs.unlinkSync inside try/catch: a missing file is not an error.
unlinkSync(files, path) == [p \in DOMAIN files \ {path} |-> files[p]]

\* hashFile: the digest of the file's bytes, equal for equal bytes and
\* taken to differ for different bytes; a missing file rejects.
hashFile(files, path) ==
  IF path \in DOMAIN files
  THEN [st |-> "ok", hex |-> <<"sha256:">> \o files[path]]
  ELSE [st |-> "throw", hex |-> <<>>]

\* getDocumentBySha256: the row with that sha256, or null.
getDocumentBySha256(sha256) ==
  LET rows == SelectSeq(documents, LAMBDA d : d.sha256 = sha256)
  IN  IF Len(rows) = 0 THEN NoDocument ELSE rows[1]

\* A request: req.file, the position of the handler and the response (or
\* the error passed to next).  alone: no other request was in progress
\* while this one was.
Upload(file, storedPath, alone) ==
  [pc |-> "hashFile", file |-> file, storedPath |-> storedPath,
   sha256 |-> <<>>, extracted |-> <<>>, status |-> 0, code |-> "",
   alone |-> alone]

NoFile == [present |-> FALSE, originalname |-> <<>>, mimetype |-> "", bytes |-> <<>>]

File(originalname, mimetype, bytes) ==
  [present |-> TRUE, originalname |-> originalname, mimetype |-> mimetype,
   bytes |-> bytes]

Responded(u, status, code) ==
  [u EXCEPT !.pc = "responded", !.status = status, !.code = code]

InProgress(u) == u.pc # "responded"

\* The row that createDocument inserts; the id stands for the uuid.
uploadedRow(u, n) ==
  [Document(<<"doc", n>>, u.file.originalname, u.storedPath, u.file.mimetype,
            IF Len(u.extracted) = 0 THEN NotStr("null") ELSE Str(u.extracted))
     EXCEPT !.createdAt = n]
  @@ [sha256 |-> u.sha256]

\* uploadDocument up to its first await: the file check and the MIME check.
\* The result: the request and the directory.
startUpload(file, files, n, alone) ==
  LET u == Upload(file, StoredPath(n), alone)
      stored == writeFile(files, u.storedPath, file.bytes)
  IN  IF ~file.present
      THEN [u |-> Responded(u, 400, "NO_FILE"), files |-> files]
      ELSE IF file.mimetype \notin SupportedMimeTypes
      THEN [u |-> Responded(u, 415, "UNSUPPORTED_MEDIA_TYPE"),
            files |-> unlinkSync(stored, u.storedPath)]
      ELSE [u |-> u, files |-> stored]

\* From the digest to the next await: the duplicate check.
afterHashFile(u, files) ==
  LET hashed == hashFile(files, u.storedPath)
  IN  IF hashed.st = "throw"
      THEN [u |-> Responded(u, 500, "DB_ERROR"), files |-> files]
      ELSE IF getDocumentBySha256(hashed.hex).t # "null"
      THEN [u |-> Responded([u EXCEPT !.sha256 = hashed.hex], 409, "DUPLICATE_DOC"),
            files |-> unlinkSync(files, u.storedPath)]
      ELSE [u |-> [u EXCEPT !.sha256 = hashed.hex, !.pc = "extractTextFromFile"],
            files |-> files]

\* From the extraction to the next await.
afterExtractText(u, files) ==
  LET extracted == extractTextIn(files, u.storedPath, u.file.mimetype)
  IN  IF extracted.st = "throw"
      THEN [u |-> Responded(u, 422,
                    IF u.storedPath \in DOMAIN files THEN "EMPTY_OR_TOO_SHORT"
                    ELSE "UNPROCESSABLE"),
            files |-> unlinkSync(files, u.storedPath)]
      ELSE [u |-> [u EXCEPT !.extracted = extracted.s, !.pc = "readFile"],
            files |-> files]

\* From the read of the file to the response: createDocument, whose INSERT
\* the unique index on sha256 refuses for a digest the table has; its
\* DUPLICATE_DOC error has statusCode and code and goes to next as it is.
afterReadFile(u, files) ==
  IF u.storedPath \notin DOMAIN files
  THEN [u |-> Responded(u, 422, "UNPROCESSABLE"), files |-> files, rows |-> <<>>]
  ELSE IF getDocumentBySha256(u.sha256).t # "null"
  THEN [u |-> Responded(u, 409, "DUPLICATE_DOC"), files |-> files, rows |-> <<>>]
  ELSE [u |-> Responded(u, 201, ""), files |-> files,
        rows |-> <<uploadedRow(u, Len(documents) + 1)>>]

\* The files a client sends: two texts, a text too short to keep, a picture.
ReportTxt == File(Fox, "text/plain", Fox \o Sp \o Rep("x", MinTextLength))

NotesTxt == File(Owl, "text/plain", Owl \o Sp \o Rep("y", MinTextLength))

ShortTxt == File(Cat, "text/plain", Cat)

Picture == File(Cat, "image/png", Rep("z", MinTextLength))

ClientFiles == {NoFile, ReportTxt, NotesTxt, ShortTxt, Picture}

(***************************************************************************)
(* The citation validator as a state machine: a call is pending, then done.*)
(***************************************************************************)
ScoreIdle ==
  /\ question = <<>>
  /\ chunkText = <<>>
  /\ questionKeywords = <<>>
  /\ score = [num |-> 0, den |-> 1]

CitationIdle ==
  /\ llmCitations = NotArray("null")
  /\ retrievedChunks = Array(<<>>)
  /\ maxCitations = Undefined
  /\ basedOnDocs = Returned(<<>>)
  /\ text = Str(<<>>)
  /\ quote = <<>>

RetrievalIdle ==
  /\ documents = <<>>
  /\ documents_fts = <<>>
  /\ fts5Available = TRUE
  /\ request = NoRequest
  /\ retrieval = NoRetrieval

NormalizeIdle ==
  /\ rawText = Str(<<>>)
  /\ normalized = <<>>
  /\ renormalized = <<>>

NoChunkArgs == [site |-> "none", text |-> <<>>, size |-> 0, overlap |-> 0]

ChunkIdle ==
  /\ chunkArgs = NoChunkArgs
  /\ windows = <<>>

GenIdle == gen = NoGen

\* req.body of POST /api/qa.
Body(q, topK, docLimit, docId) ==
  [question |-> q, topK |-> topK, docLimit |-> docLimit, docId |-> docId]

NoBody == Body(NotStr("undefined"), Undefined, Undefined, NoId)

\* The call of generateAnswer by answerQuestion: not made.
NoGenerated == NoGen

QaIdle ==
  /\ body = NoBody
  /\ generated = NoGenerated
  /\ response = NoResponse

UploadIdle ==
  /\ uploads = <<>>
  /\ disk = NoFiles

CitationInit ==
  /\ ScoreIdle
  /\ RetrievalIdle
  /\ NormalizeIdle
  /\ ChunkIdle
  /\ GenIdle
  /\ QaIdle
  /\ UploadIdle
  /\ \/ /\ pc = "buildBasedOnDocs"
        /\ \E m \in 1..Len(MaxCitationsValues) :
           \E in \in BuildInputs(MaxCitationsValues[m]) :
             /\ llmCitations = in.llm
             /\ retrievedChunks = in.retrieved
             /\ maxCitations = in.maxCit
        /\ basedOnDocs = Returned(<<>>)
        /\ text = Str(<<>>)
        /\ quote = <<>>
     \/ /\ pc = "sanitizeQuote"
        /\ text \in SanitizeTexts
        /\ quote = <<>>
        /\ llmCitations = NotArray("null")
        /\ retrievedChunks = Array(<<>>)
        /\ maxCitations = Undefined
        /\ basedOnDocs = Returned(<<>>)

BuildBasedOnDocs ==
  /\ pc = "buildBasedOnDocs"
  /\ basedOnDocs' = buildBasedOnDocs(llmCitations, retrievedChunks, maxCitations)
  /\ pc' = "built"
  /\ UNCHANGED <<llmCitations, retrievedChunks, maxCitations, text, quote,
                 question, chunkText, questionKeywords, score,
                 retrievalVars, normalizeVars, chunkVars,
                 genVars, qaVars, uploadVars>>

SanitizeQuote ==
  /\ pc = "sanitizeQuote"
  /\ quote' = sanitizeQuote(text)
  /\ pc' = "sanitized"
  /\ UNCHANGED <<llmCitations, retrievedChunks, maxCitations, basedOnDocs, text,
                 question, chunkText, questionKeywords, score,
                 retrievalVars, normalizeVars, chunkVars,
                 genVars, qaVars, uploadVars>>

CitationNext == BuildBasedOnDocs \/ SanitizeQuote

CitationSpec == CitationInit /\ [][CitationNext]_vars

(***************************************************************************)
(* Scoring a chunk against the keywords of a question.                     *)
(***************************************************************************)
Questions == SeqsUpTo({"a", "n", " "}, MaxQuestionLen)

ChunkTexts == SeqsUpTo({"a", "n", "N"}, MaxTextLen)

ScoreInit ==
  /\ pc = "extractKeywords"
  /\ question \in Questions
  /\ chunkText \in ChunkTexts
  /\ questionKeywords = <<>>
  /\ score = [num |-> 0, den |-> 1]
  /\ CitationIdle
  /\ RetrievalIdle
  /\ NormalizeIdle
  /\ ChunkIdle
  /\ GenIdle
  /\ QaIdle
  /\ UploadIdle

ExtractKeywords ==
  /\ pc = "extractKeywords"
  /\ questionKeywords' = extractKeywords(question)
  /\ pc' = "scoreChunk"
  /\ UNCHANGED <<llmCitations, retrievedChunks, maxCitations, basedOnDocs, text,
                 quote, question, chunkText, score,
                 retrievalVars, normalizeVars, chunkVars,
                 genVars, qaVars, uploadVars>>

ScoreChunk ==
  /\ pc = "scoreChunk"
  /\ score' = scoreChunk(chunkText, questionKeywords)
  /\ pc' = "scored"
  /\ UNCHANGED <<llmCitations, retrievedChunks, maxCitations, basedOnDocs, text,
                 quote, question, chunkText, questionKeywords,
                 retrievalVars, normalizeVars, chunkVars,
                 genVars, qaVars, uploadVars>>

ScoreNext == ExtractKeywords \/ ScoreChunk

ScoreSpec == ScoreInit /\ [][ScoreNext]_vars

(***************************************************************************)
(* The document store and a call of retrieveChunks.                        *)
(***************************************************************************)
\* Questions: no keyword; one keyword; a keyword no document has; four
\* keywords.
QuestionPool ==
  {The, Cat, Emu, Fox \o Sp \o Cat \o Sp \o Owl \o Sp \o Dog}

DocLimits == {1, MaxDocs}

TopKs == {1, MaxDocs + 1}

DocIds == {NullId} \cup {Id(DocumentPool[k].id) : k \in 1..Len(DocumentPool)}

\* The orders bm25 can give the documents; the order plays no part without
\* the full-text table or with a docId.
Ranks(docId) ==
  IF fts5Available /\ ~HasDocId(docId)
  THEN Permutations(1..Len(documents))
  ELSE {[i \in 1..Len(documents) |-> i]}

RetrievalInit ==
  /\ pc = "store"
  /\ documents = <<>>
  /\ documents_fts = <<>>
  /\ fts5Available \in BOOLEAN
  /\ request = NoRequest
  /\ retrieval = NoRetrieval
  /\ CitationIdle
  /\ ScoreIdle
  /\ NormalizeIdle
  /\ ChunkIdle
  /\ GenIdle
  /\ QaIdle
  /\ UploadIdle

\* createDocument; a document whose sha256 the table has is refused.
CreateDocument ==
  /\ pc = "store"
  /\ Len(documents) < MaxDocs
  /\ \E k \in 1..Len(DocumentPool) :
       LET doc == [DocumentPool[k] EXCEPT !.createdAt = Len(documents) + 1]
       IN  /\ \A i \in 1..Len(documents) : documents[i].id # doc.id
           /\ documents' = Append(documents, doc)
           /\ documents_fts' = documents_fts \o rowsOfCreate(doc)
  /\ UNCHANGED <<pc, fts5Available, request, retrieval,
                 citationVars, scoreVars, normalizeVars, chunkVars,
                 genVars, qaVars, uploadVars>>

RetrieveChunks ==
  /\ pc = "store"
  /\ \E q \in QuestionPool, docLimit \in DocLimits, topK \in TopKs,
        docId \in DocIds, fail \in SUBSET Collaborators :
       \E rank \in Ranks(docId) :
         /\ request' = [question |-> q, docLimit |-> docLimit, topK |-> topK,
                        docId |-> docId, fail |-> fail, rank |-> rank]
         /\ retrieval' = callRetrieveChunks(request')
  /\ pc' = "retrieved"
  /\ UNCHANGED <<documents, documents_fts, fts5Available,
                 citationVars, scoreVars, normalizeVars, chunkVars,
                 genVars, qaVars, uploadVars>>

RetrievalNext == CreateDocument \/ RetrieveChunks

RetrievalSpec == RetrievalInit /\ [][RetrievalNext]_vars

(***************************************************************************)
(* normalizeText, applied once and again.                                  *)
(***************************************************************************)
RawTexts ==
  {Str(s) : s \in SeqsUpTo({"a", "A", " ", "\t"}, MaxRawLen)}
  \cup {NotStr("undefined"), NotStr("null"), NotStr("number"), NotStr("object")}

NormalizeInit ==
  /\ pc = "normalizeText"
  /\ rawText \in RawTexts
  /\ normalized = <<>>
  /\ renormalized = <<>>
  /\ CitationIdle
  /\ ScoreIdle
  /\ RetrievalIdle
  /\ ChunkIdle
  /\ GenIdle
  /\ QaIdle
  /\ UploadIdle

NormalizeText ==
  /\ pc = "normalizeText"
  /\ normalized' = normalizeTextAny(rawText)
  /\ pc' = "normalizeAgain"
  /\ UNCHANGED <<rawText, renormalized,
                 citationVars, scoreVars, retrievalVars, chunkVars,
                 genVars, qaVars, uploadVars>>

NormalizeAgain ==
  /\ pc = "normalizeAgain"
  /\ renormalized' = normalizeTextAny(Str(normalized))
  /\ pc' = "normalized"
  /\ UNCHANGED <<rawText, normalized,
                 citationVars, scoreVars, retrievalVars, chunkVars,
                 genVars, qaVars, uploadVars>>

NormalizeNext == NormalizeText \/ NormalizeAgain

NormalizeSpec == NormalizeInit /\ [][NormalizeNext]_vars

(***************************************************************************)
(* chunkText, called with any sizes and called by retrieveChunks.          *)
(***************************************************************************)
\* The lengths of the document texts: at, below and above the window size
\* and the second window's end.
DocumentTextLengths ==
  {1, MinTextLength, ChunkSize - 1, ChunkSize, ChunkSize + 1,
   2 * ChunkSize - ChunkOverlap, 2 * ChunkSize - ChunkOverlap + 1,
   3 * ChunkSize}

ChunkCalls ==
  {[site |-> "chunkText", text |-> t, size |-> size, overlap |-> overlap] :
     t \in SeqsUpTo({"a", "b"}, MaxWindowText),
     size \in 1..MaxWindowSize, overlap \in 0..MaxWindowSize}
  \cup {[site |-> "retrieveChunks", text |-> Rep("x", n),
         size |-> ChunkSize, overlap |-> ChunkOverlap] :
          n \in DocumentTextLengths}

ChunkInit ==
  /\ pc = "chunkText"
  /\ chunkArgs \in ChunkCalls
  /\ windows = <<>>
  /\ CitationIdle
  /\ ScoreIdle
  /\ RetrievalIdle
  /\ NormalizeIdle
  /\ GenIdle
  /\ QaIdle
  /\ UploadIdle

ChunkText ==
  /\ pc = "chunkText"
  /\ chunkArgs.site = "chunkText"
  /\ windows' = chunkTextOf(chunkArgs.text, chunkArgs.size, chunkArgs.overlap)
  /\ pc' = "chunked"
  /\ UNCHANGED <<chunkArgs, citationVars, scoreVars, retrievalVars, normalizeVars,
                 genVars, qaVars, uploadVars>>

ChunkDocumentText ==
  /\ pc = "chunkText"
  /\ chunkArgs.site = "retrieveChunks"
  /\ windows' = chunkDocumentText(chunkArgs.text)
  /\ pc' = "chunked"
  /\ UNCHANGED <<chunkArgs, citationVars, scoreVars, retrievalVars, normalizeVars,
                 genVars, qaVars, uploadVars>>

ChunkNext == ChunkText \/ ChunkDocumentText

ChunkSpec == ChunkInit /\ [][ChunkNext]_vars

(***************************************************************************)
(* generateAnswer, call after call of generateContent.                     *)
(***************************************************************************)
GenInit ==
  /\ pc = "generateAnswer"
  /\ gen = NoGen
  /\ CitationIdle
  /\ ScoreIdle
  /\ RetrievalIdle
  /\ NormalizeIdle
  /\ ChunkIdle
  /\ QaIdle
  /\ UploadIdle

\* A call of generateAnswer begins; the cache of the module, empty at first,
\* has expired or not.
GenerateAnswer ==
  /\ gen.pc \in {"idle", "returned", "thrown"}
  /\ gen.round < MaxRounds
  /\ \E apiKey \in BOOLEAN, configured \in ConfiguredModels,
        expired \in (IF gen.round = 0 THEN {TRUE} ELSE BOOLEAN),
        listing \in Listings :
       gen' = startGenerate(gen, apiKey, configured, expired, listing)
  /\ UNCHANGED <<pc, citationVars, scoreVars, retrievalVars, normalizeVars,
                 chunkVars, qaVars, uploadVars>>

\* generateContent on the current candidate settles.
GenerateContent ==
  /\ gen.pc = "attempt"
  /\ Len(gen.calls) < MaxCalls
  /\ \E outcome \in ApiOutcomes : gen' = afterGenerateContent(gen, outcome)
  /\ UNCHANGED <<pc, citationVars, scoreVars, retrievalVars, normalizeVars,
                 chunkVars, qaVars, uploadVars>>

\* The sleep is over and the second generateContent settles.
RetryGenerateContent ==
  /\ gen.pc = "retry"
  /\ Len(gen.calls) < MaxCalls
  /\ \E outcome \in ApiOutcomes : gen' = afterRetry(gen, outcome)
  /\ UNCHANGED <<pc, citationVars, scoreVars, retrievalVars, normalizeVars,
                 chunkVars, qaVars, uploadVars>>

GenNext == GenerateAnswer \/ GenerateContent \/ RetryGenerateContent

GenSpec == GenInit /\ [][GenNext]_vars

\* Every call of generateContent settles (it resolves or rejects), and the
\* timer of the sleep fires.
GenFairSpec ==
  GenSpec /\ WF_vars(GenerateContent) /\ WF_vars(RetryGenerateContent)

(***************************************************************************)
(* POST /api/qa on the document store.                                     *)
(***************************************************************************)
\* question: absent, blank, a word with blanks around it, a word that no
\* document has, a number.
QaQuestions ==
  {NotStr("undefined"), Str(Sp \o Sp), Str(Sp \o Cat \o Sp), Str(Emu),
   NotStr("number")}

\* topK and docLimit: absent, zero, negative, in range, huge, a string that
\* begins with digits, a string that does not, null.
RawLimits ==
  {Undefined, Num(0), Num(0 - 1), Num(2), Num(1000),
   Str(<<" ", "9", "p", "x">>), Str(<<"a", "b", "c">>), NotNum("null")}

\* docId: absent, a document of the pool, no document.
QaDocIds == {NoId, Id("d1"), Id("d9")}

\* The pairs of limits: each value as topK alone, as docLimit alone and as
\* both, and a huge topK with a docLimit that is a string.
LimitPairs ==
  {<<v, Undefined>> : v \in RawLimits}
  \cup {<<Undefined, v>> : v \in RawLimits}
  \cup {<<v, v>> : v \in RawLimits}
  \cup {<<Num(1000), Str(<<" ", "9", "p", "x">>)>>}

\* The bodies: every pair of limits with a question and no docId, and every
\* question and docId without limits and with two limits in range.
Bodies ==
  {Body(Str(Sp \o Cat \o Sp), limits[1], limits[2], NoId) : limits \in LimitPairs}
  \cup {Body(q, limits[1], limits[2], docId) :
          q \in QaQuestions, docId \in QaDocIds,
          limits \in {<<Undefined, Undefined>>, <<Num(2), Num(1)>>}}

\* The database answers, or listDocuments throws.
QaFails == {{}, {"listDocuments"}}

\* What generateContent answers, call after call: JSON with citations; prose;
\* a cut-off object; JSON without answer; too many requests, then JSON
\* without answer; not found, then JSON after prose; errors only.
OkText ==
  ResponseText(TRUE, <<>>, JsonObject(Str(Cat), Array(<<CitedNowhere, CitedD1>>), Str(High)))

NoAnswerText ==
  ResponseText(FALSE, <<>>, JsonObject(NotStr("undefined"), Array(<<CitedD1>>), Str(High)))

TooManyRequests ==
  ApiError(429, Array(<<Detail(RetryInfo, Str(<<"1", "s">>))>>), Undefined)

QaScripts ==
  {<<TextOutcome(OkText)>>,
   <<TextOutcome(ResponseText(FALSE, Cat \o Sp, JsonNone))>>,
   <<TextOutcome(ResponseText(TRUE, <<>>, JsonTruncated(Str(Sp \o Owl))))>>,
   <<TextOutcome(NoAnswerText)>>,
   <<ErrorOutcome(TooManyRequests), TextOutcome(NoAnswerText)>>,
   <<ErrorOutcome(ApiError(404, NoDetails, Undefined)),
     TextOutcome(ResponseText(FALSE, Fox \o Sp,
                              JsonObject(Str(Owl), NotArray("undefined"),
                                         NotStr("undefined"))))>>,
   <<ErrorOutcome(TooManyRequests), ErrorOutcome(ApiError(500, NoDetails, Undefined))>>}

\* A call of generateAnswer to its end, with the key set or not and two
\* models listed.
generation(apiKey, script) ==
  runGenerate(startGenerate(NoGen, apiKey, <<>>, TRUE,
                            Listing(TRUE, <<Gemini15Pro, Gemini2Flash>>)),
              script)

QaInit == RetrievalInit

\* answerQuestion up to the response it sends without the generator, or to
\* the call of generateAnswer.
AnswerQuestion ==
  /\ pc = "store"
  /\ \E b \in Bodies, fail \in QaFails :
       \E rank \in Ranks(NullId) :
         /\ body' = b
         /\ IF questionCheck(b) = "ok"
            THEN /\ request' = qaRequest(b, fail, rank)
                 /\ retrieval' = callRetrieveChunks(request')
                 /\ response' = afterRetrieval(request', retrieval')
                 /\ pc' = IF response' = NoResponse THEN "generateAnswer"
                          ELSE "responded"
            ELSE /\ response' = IF questionCheck(b) = "missing"
                                THEN ErrorResponse(400, "BAD_REQUEST")
                                ELSE ErrorResponse(500, "INTERNAL_ERROR")
                 /\ pc' = "responded"
                 /\ UNCHANGED <<request, retrieval>>
  /\ UNCHANGED <<documents, documents_fts, fts5Available, generated,
                 citationVars, scoreVars, normalizeVars, chunkVars,
                 genVars, uploadVars>>

\* generateAnswer settles and answerQuestion sends its response.
AnswerGenerated ==
  /\ pc = "generateAnswer"
  /\ \E apiKey \in BOOLEAN, script \in QaScripts :
       /\ generated' = generation(apiKey, script)
       /\ response' = qaRespond(request, retrieval.chunks, generated')
  /\ pc' = "responded"
  /\ UNCHANGED <<body, retrievalVars, citationVars, scoreVars, normalizeVars,
                 chunkVars, genVars, uploadVars>>

QaNext == CreateDocument \/ AnswerQuestion \/ AnswerGenerated

QaSpec == QaInit /\ [][QaNext]_vars

(***************************************************************************)
(* uploadDocument as a state machine: the requests run concurrently, each  *)
(* from one await to the next in one step.                                 *)
(***************************************************************************)
UploadInit ==
  /\ pc = "upload"
  /\ uploads = <<>>
  /\ disk = NoFiles
  /\ documents = <<>>
  /\ documents_fts = <<>>
  /\ fts5Available \in BOOLEAN
  /\ request = NoRequest
  /\ retrieval = NoRetrieval
  /\ CitationIdle
  /\ ScoreIdle
  /\ NormalizeIdle
  /\ ChunkIdle
  /\ GenIdle
  /\ QaIdle

\* A request arrives: multer stores the file, the handler runs to hashFile.
UploadDocument ==
  /\ pc = "upload"
  /\ Len(uploads) < MaxUploads
  /\ \E file \in ClientFiles :
       LET others == \E j \in 1..Len(uploads) : InProgress(uploads[j])
           started == startUpload(file, disk, Len(uploads) + 1, ~others)
       IN  /\ uploads' = Append([j \in 1..Len(uploads) |->
                                   IF InProgress(uploads[j])
                                   THEN [uploads[j] EXCEPT !.alone = FALSE]
                                   ELSE uploads[j]],
                                started.u)
           /\ disk' = started.files
  /\ UNCHANGED <<pc, retrievalVars, citationVars, scoreVars, normalizeVars,
                 chunkVars, genVars, qaVars>>

HashedFile ==
  /\ pc = "upload"
  /\ \E i \in 1..Len(uploads) :
       /\ uploads[i].pc = "hashFile"
       /\ LET step == afterHashFile(uploads[i], disk)
          IN  /\ uploads' = [uploads EXCEPT ![i] = step.u]
              /\ disk' = step.files
  /\ UNCHANGED <<pc, retrievalVars, citationVars, scoreVars, normalizeVars,
                 chunkVars, genVars, qaVars>>

ExtractedText ==
  /\ pc = "upload"
  /\ \E i \in 1..Len(uploads) :
       /\ uploads[i].pc = "extractTextFromFile"
       /\ LET step == afterExtractText(uploads[i], disk)
          IN  /\ uploads' = [uploads EXCEPT ![i] = step.u]
              /\ disk' = step.files
  /\ UNCHANGED <<pc, retrievalVars, citationVars, scoreVars, normalizeVars,
                 chunkVars, genVars, qaVars>>

ReadFile ==
  /\ pc = "upload"
  /\ \E i \in 1..Len(uploads) :
       /\ uploads[i].pc = "readFile"
       /\ LET step == afterReadFile(uploads[i], disk)
          IN  /\ uploads' = [uploads EXCEPT ![i] = step.u]
              /\ disk' = step.files
              /\ documents' = documents \o step.rows
              /\ documents_fts' =
                   documents_fts \o Flatten([k \in 1..Len(step.rows) |->
                                               rowsOfCreate(step.rows[k])])
  /\ UNCHANGED <<pc, fts5Available, request, retrieval,
                 citationVars, scoreVars, normalizeVars,
                 chunkVars, genVars, qaVars>>

UploadNext == UploadDocument \/ HashedFile \/ ExtractedText \/ ReadFile

UploadSpec == UploadInit /\ [][UploadNext]_vars

(***************************************************************************)
(* Properties of the citation validator.                                   *)
(***************************************************************************)
Built == pc = "built"

\* The citations returned, the retrieved chunks and the claims of the call.
Cits == basedOnDocs.list

Chunks == IF retrievedChunks.t = "array" THEN retrievedChunks.a ELSE <<>>

Claims == IF llmCitations.t = "array" THEN llmCitations.a ELSE <<>>

AllChunksObjects == \A j \in 1..Len(Chunks) : Chunks[j].t = "object"

\* maxCitations as a number: the default when undefined.
MaxCitationsGiven ==
  IF maxCitations.t = "undefined" THEN DefaultMaxCitations ELSE maxCitations.n

MaxCitationsIsCount ==
  \/ maxCitations.t = "undefined"
  \/ maxCitations.t = "number" /\ maxCitations.n >= 0

\* The claim carries a chunkId.
HasChunkId(c) == c.t = "object" /\ c.chunkId.t = "string" /\ c.chunkId.s # ""

\* The claim carries a docId and a numeric startChar/endChar.
HasRange(c) ==
  /\ c.t = "object"
  /\ c.docId.t = "string" /\ c.docId.s # ""
  /\ c.startChar.t = "number" /\ c.endChar.t = "number"

\* The retrieved chunks whose chunkId the claim carries.
ExactMatches(c) ==
  {j \in 1..Len(Chunks) :
     Chunks[j].t = "object" /\ HasChunkId(c) /\ Chunks[j].chunkId = c.chunkId.s}

\* The retrieved chunks of the claimed document that contain the claimed range.
RangeMatches(c) ==
  {j \in 1..Len(Chunks) :
     /\ Chunks[j].t = "object" /\ HasRange(c)
     /\ Chunks[j].docId = c.docId.s
     /\ Chunks[j].startChar <= c.startChar.n
     /\ Chunks[j].endChar >= c.endChar.n}

\* The first citation is the one for the first chunk containing the range
\* of the first claim, with the claimed range.
FirstClaimCitedByRange ==
  /\ Len(Cits) > 0
  /\ LET c == Claims[1]
         j == SetMin(RangeMatches(c))
     IN  /\ Cits[1].chunkId = Chunks[j].chunkId
         /\ Cits[1].startChar = c.startChar.n
         /\ Cits[1].endChar = Max2(c.startChar.n, c.endChar.n)

\* Every citation is the retrieved chunk at its position, range included:
\* nothing in the result derives from a claim.
ResultIsRetrievalOnly ==
  \A i \in 1..Len(Cits) :
    /\ i <= Len(Chunks)
    /\ Cits[i].chunkId = Chunks[i].chunkId
    /\ Cits[i].docId = Chunks[i].docId
    /\ Cits[i].docName = Chunks[i].docName
    /\ Cits[i].startChar = Chunks[i].startChar
    /\ Cits[i].endChar = Chunks[i].endChar

\* C1: every citation returned by buildBasedOnDocs has the chunkId of some
\* element of retrievedChunks, and its docId and docName are those of that
\* chunk, whatever the claims say.
C1_CitationsFromRetrieval ==
  Built =>
    \A i \in 1..Len(Cits) :
      \E j \in 1..Len(Chunks) :
        /\ Chunks[j].t = "object"
        /\ Chunks[j].chunkId = Cits[i].chunkId
        /\ Chunks[j].docId = Cits[i].docId
        /\ Chunks[j].docName = Cits[i].docName

\* A claim matched by chunkId names another document than its chunk's, and
\* the citation validated from it (its range starts where the claim says)
\* carries the chunk's document.
C1_Witness ==
  /\ Built
  /\ Len(Claims) > 0 /\ Len(Cits) > 0
  /\ ExactMatches(Claims[1]) # {}
  /\ Claims[1].docId.t = "string"
  /\ Claims[1].docId.s # Cits[1].docId
  /\ Cits[1].chunkId = Claims[1].chunkId.s
  /\ Cits[1].startChar = Claims[1].startChar.n

\* C2 as stated: a first claim whose chunkId equals no retrieved chunk's
\* chunkId (absent, or matching nothing) and whose range some retrieved
\* chunk of its document contains yields the citation for that chunk.
C2_RangeMatchAfterFailedChunkId ==
  ( /\ Built /\ AllChunksObjects /\ MaxCitationsIsCount
    /\ Len(Claims) > 0
    /\ ExactMatches(Claims[1]) = {}
    /\ RangeMatches(Claims[1]) # {} )
  => FirstClaimCitedByRange

\* C2 as amended: a first claim that carries no chunkId and whose range some
\* retrieved chunk of its document contains yields the citation for that
\* chunk; claims that carry a chunkId equal to no retrieved chunk's are
\* discarded without a range match, so that a call whose claims are all of
\* that kind returns retrieval-only citations.
C2_RangeMatchOnlyWithoutChunkId ==
  (Built /\ AllChunksObjects /\ MaxCitationsIsCount /\ Len(Claims) > 0) =>
    /\ (~HasChunkId(Claims[1]) /\ RangeMatches(Claims[1]) # {})
         => FirstClaimCitedByRange
    /\ (\A k \in 1..Len(Claims) :
          HasChunkId(Claims[k]) /\ ExactMatches(Claims[k]) = {})
         => ResultIsRetrievalOnly

\* A claim with a fabricated chunkId whose range a retrieved chunk of its
\* document contains was discarded: the call fell back on retrieval.
C2_Witness ==
  /\ Built /\ AllChunksObjects /\ MaxCitationsIsCount
  /\ Len(Claims) = 1
  /\ HasChunkId(Claims[1])
  /\ ExactMatches(Claims[1]) = {}
  /\ RangeMatches(Claims[1]) # {}
  /\ Len(Cits) > 0
  /\ ~FirstClaimCitedByRange

\* C3 as stated: every emitted citation lies inside the retrieved chunk it
\* cites: chunk.startChar <= startChar <= endChar <= chunk.endChar.
C3_CitationInsideChunk ==
  Built =>
    \A i \in 1..Len(Cits) :
      \E j \in 1..Len(Chunks) :
        /\ Chunks[j].t = "object"
        /\ Chunks[j].chunkId = Cits[i].chunkId
        /\ Chunks[j].startChar <= Cits[i].startChar
        /\ Cits[i].startChar <= Cits[i].endChar
        /\ Cits[i].endChar <= Chunks[j].endChar

\* No claim matches a retrieved chunk, by chunkId or by range.
NoClaimMatches ==
  \A k \in 1..Len(Claims) :
    ExactMatches(Claims[k]) = {} /\ RangeMatches(Claims[k]) = {}

\* C4 as stated: with the claims absent, empty or all unmatched, the result
\* is the first min(maxCitations, |retrievedChunks|) retrieved chunks as
\* citations, in retrieval order.
C4_FallbackIsTopChunks ==
  (Built /\ AllChunksObjects /\ MaxCitationsIsCount /\ NoClaimMatches) =>
    /\ Len(Cits) = Min2(MaxCitationsGiven, Len(Chunks))
    /\ ResultIsRetrievalOnly

\* C4 restricted to maxCitations >= 1, where the limit is not replaced.
C4_FallbackIsTopChunksFromOne ==
  (MaxCitationsGiven >= 1) => C4_FallbackIsTopChunks

\* C5 as stated: for an integer maxCitations >= 0 the result has at most
\* maxCitations citations.
C5_AtMostMaxCitations ==
  (Built /\ maxCitations.t = "number" /\ maxCitations.n >= 0) =>
    Len(Cits) <= maxCitations.n

\* C5 restricted to maxCitations >= 1.
C5_AtMostMaxCitationsFromOne ==
  (maxCitations.t = "number" /\ maxCitations.n >= 1) => C5_AtMostMaxCitations

\* The retrieved chunk a claim is matched to (0: none): by chunkId for a
\* claim that carries one, by range otherwise.
MatchedChunk(c) ==
  IF HasChunkId(c)
  THEN (IF ExactMatches(c) = {} THEN 0 ELSE SetMin(ExactMatches(c)))
  ELSE (IF RangeMatches(c) = {} THEN 0 ELSE SetMin(RangeMatches(c)))

\* The chunkIds of the matched claims from claim k on, in claim order, each
\* the first time it occurs.
RECURSIVE DistinctMatchedIds(_, _)
DistinctMatchedIds(k, acc) ==
  IF k > Len(Claims) THEN acc
  ELSE LET j == MatchedChunk(Claims[k])
       IN  IF j = 0 \/ (\E n \in 1..Len(acc) : acc[n] = Chunks[j].chunkId)
           THEN DistinctMatchedIds(k + 1, acc)
           ELSE DistinctMatchedIds(k + 1, Append(acc, Chunks[j].chunkId))

\* C6 as stated: when a claim validates, the citations have distinct
\* chunkIds and are the first maxCitations distinct-chunk matches in claim
\* order.
C6_FirstDistinctMatches ==
  ( /\ Built /\ AllChunksObjects /\ MaxCitationsIsCount
    /\ \E k \in 1..Len(Claims) : MatchedChunk(Claims[k]) # 0 )
  => /\ \A i, n \in 1..Len(Cits) : Cits[i].chunkId = Cits[n].chunkId => i = n
     /\ [i \in 1..Len(Cits) |-> Cits[i].chunkId]
          = Slice(DistinctMatchedIds(1, <<>>), 0, MaxCitationsGiven)

\* C6 restricted to maxCitations >= 1.
C6_FirstDistinctMatchesFromOne ==
  (MaxCitationsGiven >= 1) => C6_FirstDistinctMatches

\* A quote no longer than the cap, without newline or tab, without two
\* consecutive whitespace characters.
QuoteIsClean(q) ==
  /\ Len(q) <= 200
  /\ \A i \in 1..Len(q) : q[i] \notin {"\n", "\t"}
  /\ \A i \in 1..(Len(q) - 1) : ~(IsWS(q[i]) /\ IsWS(q[i + 1]))

\* C7: every quote of a returned citation, and every result of sanitizeQuote,
\* has at most 200 characters, no newline or tab, and no run of whitespace.
C7_QuotesClean ==
  /\ Built => \A i \in 1..Len(Cits) : QuoteIsClean(Cits[i].quote)
  /\ pc = "sanitized" => QuoteIsClean(quote)

\* sanitizeQuote returned a capped quote for a text longer than the cap that
\* holds a tab and two consecutive whitespace characters.
C7_Witness ==
  /\ pc = "sanitized"
  /\ text.t = "string"
  /\ Len(text.s) > 200
  /\ \E i \in 1..(Len(text.s) - 1) : text.s[i] = "\t" /\ IsWS(text.s[i + 1])
  /\ Len(quote) = 200

\* C8 as stated: every quote of an emitted citation neither starts nor ends
\* with a whitespace character.
C8_QuotesTrimmed ==
  Built =>
    \A i \in 1..Len(Cits) :
      LET q == Cits[i].quote
      IN  Len(q) > 0 => ~IsWS(q[1]) /\ ~IsWS(q[Len(q)])

\* C9: buildBasedOnDocs never throws; a call whose body fails (a Symbol as
\* maxCitations, a null element of retrievedChunks among those read) returns
\* the empty list.
C9_NeverThrows ==
  Built =>
    /\ ~basedOnDocs.threw
    /\ maxCitations.t = "symbol" => Cits = <<>>
    /\ (Len(Chunks) > 0 /\ Chunks[1].t = "null" /\ maxCitations.t # "symbol")
         => Cits = <<>>

\* A call with ill-typed claims whose retrievedChunks starts with null has
\* returned the empty list.
C9_Witness ==
  /\ Built
  /\ Len(Chunks) > 1 /\ Chunks[1].t = "null" /\ Chunks[2].t = "object"
  /\ Len(Claims) > 0 /\ Claims[1].t = "null"
  /\ ~basedOnDocs.threw
  /\ Cits = <<>>

(***************************************************************************)
(* Properties of the scorer.                                               *)
(***************************************************************************)
\* The keyword occurs in the text, letter case ignored.
OccursIn(keyword, txt) ==
  \E i \in 1..(Len(txt) - Len(keyword) + 1) :
    \A k \in 1..Len(keyword) : LowerChar(txt[i + k - 1]) = LowerChar(keyword[k])

\* The positions of the keyword list whose keyword occurs in the chunk.
MatchedPositions ==
  {k \in 1..Len(questionKeywords) : OccursIn(questionKeywords[k], chunkText)}

RetrievalReturned == pc = "retrieved" /\ retrieval.st = "returned"

\* C11: every chunk that retrieveChunks returns has a score between 0 and 1,
\* and a score of exactly 0 when the question yields no keyword (the ratio
\* is never a division by zero).
C11_ScoreInUnitInterval ==
  RetrievalReturned =>
    \A i \in 1..Len(retrieval.chunks) :
      LET sc == retrieval.chunks[i].score
      IN  /\ sc.den > 0
          /\ 0 <= sc.num
          /\ sc.num <= sc.den
          /\ (extractKeywords(request.question) = <<>> => sc.num = 0)

\* Chunks are returned for a question without keywords.
C11_Witness ==
  /\ RetrievalReturned
  /\ extractKeywords(request.question) = <<>>
  /\ Len(retrieval.chunks) > 0

\* C12: retrieveChunks returns at most topK chunks, in descending order of
\* score, chunks of equal score in the order of their discovery (position
\* in allChunks: candidate order, then chunk index), and no chunk that is
\* left out has a higher score than a returned one.
C12_TopKByScoreStable ==
  RetrievalReturned =>
    LET all == retrieval.allChunks
        picked == retrieval.picked
        out == retrieval.chunks
        left == (1..Len(all)) \ {picked[i] : i \in 1..Len(picked)}
    IN  /\ Len(out) <= request.topK
        /\ Len(out) = Len(picked)
        /\ \A i \in 1..Len(out) :
             picked[i] \in 1..Len(all) /\ out[i] = all[picked[i]]
        /\ \A i, j \in 1..Len(out) :
             i < j =>
               /\ picked[i] # picked[j]
               /\ ~ScoreLess(out[i].score, out[j].score)
               /\ (~ScoreLess(out[j].score, out[i].score) => picked[i] < picked[j])
        /\ \A k \in left : \A i \in 1..Len(out) :
             ~ScoreLess(out[i].score, all[k].score)

\* The sort moved a chunk forward and kept two chunks of equal score in
\* their order.
C12_Witness ==
  /\ RetrievalReturned
  /\ \E i \in 1..(Len(retrieval.picked) - 1) :
       retrieval.picked[i] > retrieval.picked[i + 1]
  /\ \E i \in 1..(Len(retrieval.chunks) - 1) :
       /\ retrieval.chunks[i].score = retrieval.chunks[i + 1].score
       /\ retrieval.chunks[i].chunkId # retrieval.chunks[i + 1].chunkId

\* The document that the docId of the request names, NoDocument if none.
RequestedDocument == getDocumentById(request.docId.s)

\* C13: with an explicit docId, if no document has that id the result is
\* the empty sequence and neither the search nor the listing of recent
\* documents is consulted; if the document exists every returned chunk has
\* that docId.
C13_ExplicitDocIdOnly ==
  (pc = "retrieved" /\ HasDocId(request.docId)) =>
    /\ ~retrieval.searched
    /\ ~retrieval.listed
    /\ retrieval.st = "returned" =>
         IF RequestedDocument.t = "null"
         THEN retrieval.chunks = <<>>
         ELSE \A i \in 1..Len(retrieval.chunks) :
                retrieval.chunks[i].docId = request.docId.s

\* The docId names one of two stored documents, and its chunks are returned.
C13_Witness ==
  /\ RetrievalReturned
  /\ HasDocId(request.docId)
  /\ RequestedDocument.t = "object"
  /\ Len(documents) > 1
  /\ Len(retrieval.chunks) > 1

\* The other case of C13: the docId names no document, others are stored.
C13_MissingReached ==
  /\ RetrievalReturned
  /\ HasDocId(request.docId)
  /\ RequestedDocument.t = "null"
  /\ Len(documents) > 0

\* The keywords of the question of the request.
RequestKeywords == extractKeywords(request.question)

\* The call had no docId and no candidate could come from the search: no
\* keyword, or the search threw, or it returned no result.
SearchGaveNothing ==
  /\ pc = "retrieved"
  /\ ~HasDocId(request.docId)
  /\ \/ RequestKeywords = <<>>
     \/ "searchDocumentsByKeyword" \in request.fail
     \/ searchDocumentsByKeyword(Join(Take(RequestKeywords, SearchKeywords)),
                                 request.docLimit, request.rank) = <<>>

\* The docLimit most recently created documents, the newest first.
MostRecent(n) ==
  [i \in 1..Min2(n, Len(documents)) |-> documents[Len(documents) + 1 - i]]

\* C14: without a docId, when the question yields no keyword, or the search
\* returns nothing, or the search throws, the candidates are the docLimit
\* most recent documents and retrieveChunks completes with a result; the
\* search is queried with the first 3 keywords only.
C14_FallbackToRecent ==
  /\ (pc = "retrieved" /\ retrieval.searched) =>
       /\ Len(SplitWS(retrieval.searchQuery)) <= 3
       /\ SplitWS(retrieval.searchQuery)
            = SubSeq(RequestKeywords, 1, Len(SplitWS(retrieval.searchQuery)))
       /\ Len(RequestKeywords) <= 3 =>
            SplitWS(retrieval.searchQuery) = RequestKeywords
  /\ SearchGaveNothing =>
       /\ retrieval.st = "returned"
       /\ retrieval.candidateDocs = MostRecent(request.docLimit)

\* C14 for the calls in which listDocuments answers.
C14_FallbackToRecentWhenListed ==
  /\ (pc = "retrieved" /\ retrieval.searched) =>
       /\ Len(SplitWS(retrieval.searchQuery)) <= 3
       /\ SplitWS(retrieval.searchQuery)
            = SubSeq(RequestKeywords, 1, Len(SplitWS(retrieval.searchQuery)))
       /\ Len(RequestKeywords) <= 3 =>
            SplitWS(retrieval.searchQuery) = RequestKeywords
  /\ (SearchGaveNothing /\ "listDocuments" \notin request.fail) =>
       /\ retrieval.st = "returned"
       /\ retrieval.candidateDocs = MostRecent(request.docLimit)

\* The search threw for a question of four keywords and recent documents
\* gave the chunks.
C14_FallbackReached ==
  /\ SearchGaveNothing
  /\ Len(RequestKeywords) > 3
  /\ "searchDocumentsByKeyword" \in request.fail
  /\ retrieval.st = "returned"
  /\ Len(retrieval.chunks) > 0

\* The document has no stored text and the extraction from its file throws.
AcquisitionFails(doc) ==
  /\ (doc.contentText.t = "string" => \A i \in 1..Len(doc.contentText.s) :
                                         IsWS(doc.contentText.s[i]))
  /\ extractTextFromFile(doc.storedPath, doc.mimeType).st = "throw"

\* The length of the text of a document whose text can be acquired.
TextLength(doc) ==
  IF doc.contentText.t = "string"
     /\ \E i \in 1..Len(doc.contentText.s) : ~IsWS(doc.contentText.s[i])
  THEN Len(doc.contentText.s)
  ELSE Len(extractTextFromFile(doc.storedPath, doc.mimeType).s)

\* The number of windows of ChunkSize characters, ChunkOverlap of them
\* shared, that a text of n characters has.
WindowCount(n) ==
  IF n <= ChunkSize THEN 1
  ELSE 1 + ((n - ChunkSize + (ChunkSize - ChunkOverlap) - 1)
              \div (ChunkSize - ChunkOverlap))

\* The chunk ids that the candidates owe to the ranking, in order.
OwedChunkIds ==
  Flatten([c \in 1..Len(retrieval.candidateDocs) |->
    LET doc == retrieval.candidateDocs[c]
    IN  IF AcquisitionFails(doc) THEN <<>>
        ELSE [i \in 1..WindowCount(TextLength(doc)) |-> ChunkIdOf(doc.id, i - 1)]])

C16_NeverRejects == pc = "retrieved" => retrieval.st = "returned"

\* C16 for the calls in which neither the lookup of an explicit docId nor
\* the listing of recent documents throws.
C16_NeverRejectsWhenStoreAnswers ==
  (/\ pc = "retrieved"
   /\ HasDocId(request.docId) => "getDocumentById" \notin request.fail
   /\ "listDocuments" \notin request.fail)
    => retrieval.st = "returned"

\* C17: no two chunks that retrieveChunks returns share a chunkId, and each
\* chunkId is <docId>_chunk_<index>, index the zero-based position of the
\* chunk among the windows of its document.
C17_DistinctChunkIds ==
  RetrievalReturned =>
    /\ \A i, j \in 1..Len(retrieval.chunks) :
         i # j => retrieval.chunks[i].chunkId # retrieval.chunks[j].chunkId
    /\ \A i \in 1..Len(retrieval.chunks) :
         LET chunk == retrieval.chunks[i]
         IN  \E index \in 0..Len(retrieval.allChunks) :
               /\ chunk.chunkId = <<chunk.docId, "_chunk_", index>>
               /\ chunk.startChar = index * (ChunkSize - ChunkOverlap)

\* C17 for a database without the full-text table, where the search is the
\* LIKE query over the table documents.
C17_DistinctChunkIdsWithoutFts ==
  (RetrievalReturned /\ ~fts5Available) =>
    /\ \A i, j \in 1..Len(retrieval.chunks) :
         i # j => retrieval.chunks[i].chunkId # retrieval.chunks[j].chunkId
    /\ \A i \in 1..Len(retrieval.chunks) :
         LET chunk == retrieval.chunks[i]
         IN  \E index \in 0..Len(retrieval.allChunks) :
               /\ chunk.chunkId = <<chunk.docId, "_chunk_", index>>
               /\ chunk.startChar = index * (ChunkSize - ChunkOverlap)

\* C18: every returned chunk has the docId of a stored document that was a
\* candidate of the call, the candidates are at most docLimit, and so the
\* chunks come from at most docLimit distinct documents.
C18_ChunksOfCandidates ==
  RetrievalReturned =>
    /\ \A i \in 1..Len(retrieval.chunks) :
         /\ \E d \in 1..Len(documents) :
              documents[d].id = retrieval.chunks[i].docId
         /\ \E c \in 1..Len(retrieval.candidateDocs) :
              retrieval.candidateDocs[c].id = retrieval.chunks[i].docId
    /\ Len(retrieval.candidateDocs) <= request.docLimit
    /\ Cardinality({retrieval.chunks[i].docId : i \in 1..Len(retrieval.chunks)})
         <= request.docLimit

\* More documents are stored than docLimit admits, and chunks are returned.
C18_Witness ==
  /\ RetrievalReturned
  /\ Len(documents) > request.docLimit
  /\ Len(retrieval.candidateDocs) = request.docLimit
  /\ Len(retrieval.chunks) > 1

(***************************************************************************)
(* Properties of normalizeText and chunkText.                              *)
(***************************************************************************)
\* C19: normalizeText is idempotent; it returns the empty string for every
\* input that is not a string; its result has no leading or trailing
\* whitespace and no two adjacent whitespace characters.
C19_NormalizeIdempotent ==
  /\ pc \in {"normalizeAgain", "normalized"} =>
       /\ rawText.t # "string" => normalized = <<>>
       /\ Len(normalized) > 0 =>
            ~IsWS(normalized[1]) /\ ~IsWS(normalized[Len(normalized)])
       /\ \A i \in 1..(Len(normalized) - 1) :
            ~(IsWS(normalized[i]) /\ IsWS(normalized[i + 1]))
  /\ pc = "normalized" => renormalized = normalized

\* A string with upper case, whitespace at both ends and a run of
\* whitespace inside has been normalized twice.
C19_Witness ==
  /\ pc = "normalized"
  /\ rawText.t = "string"
  /\ Len(rawText.s) >= Len(normalized) + 2
  /\ IsWS(rawText.s[1])
  /\ \E i \in 1..Len(rawText.s) : rawText.s[i] = "A"
  /\ \E i \in 2..(Len(normalized) - 1) : IsWS(normalized[i])

\* C20: for a non-empty text and overlap < size the windows of chunkText
\* start at 0, end at the length of the text, leave no character uncovered,
\* have startChar <= endChar, and each two consecutive windows share exactly
\* overlap characters, except possibly the last two; an empty text has no
\* window.  retrieveChunks calls it with size 1000 and overlap 100.
C20_WindowsCoverText ==
  pc = "chunked" =>
    LET txt == chunkArgs.text
        n == Len(windows)
    IN  /\ Len(txt) = 0 => windows = <<>>
        /\ (Len(txt) > 0 /\ chunkArgs.overlap < chunkArgs.size) =>
             /\ n > 0
             /\ windows[1].startChar = 0
             /\ windows[n].endChar = Len(txt)
             /\ \A i \in 1..n : windows[i].startChar <= windows[i].endChar
             /\ \A p \in 0..(Len(txt) - 1) :
                  \E i \in 1..n :
                    windows[i].startChar <= p /\ p < windows[i].endChar
             /\ \A i \in 1..(n - 2) :
                  windows[i].endChar - windows[i + 1].startChar = chunkArgs.overlap
        /\ chunkArgs.site = "retrieveChunks" =>
             /\ chunkArgs.size = 1000
             /\ chunkArgs.overlap = 100

\* Three windows or more that share characters, the last one clipped.
C20_Witness ==
  /\ pc = "chunked"
  /\ 0 < chunkArgs.overlap
  /\ chunkArgs.overlap < chunkArgs.size
  /\ Len(windows) >= 3
  /\ windows[Len(windows)].endChar - windows[Len(windows)].startChar
       < chunkArgs.size

(***************************************************************************)
(* Properties of generateAnswer.                                           *)
(***************************************************************************)
GenSettled == gen.pc \in {"returned", "thrown"}

\* The calls of generateContent made on candidate k.
CallsOn(k) == {n \in 1..Len(gen.calls) : gen.calls[n].i = k}

\* The candidates are called in the order of the list, none is skipped, and
\* a candidate gets one call, or two of which the second is the retry that
\* follows the first at once.
WalkedInOrder ==
  /\ \A n \in 1..Len(gen.calls) :
       /\ gen.calls[n].i \in 1..Len(gen.candidates)
       /\ ~gen.calls[n].retry =>
            gen.calls[n].i = (IF n = 1 THEN 1 ELSE gen.calls[n - 1].i + 1)
       /\ gen.calls[n].retry =>
            /\ n > 1
            /\ gen.calls[n - 1].i = gen.calls[n].i
            /\ ~gen.calls[n - 1].retry
  /\ \A k \in 1..Len(gen.candidates) : Cardinality(CallsOn(k)) <= 2

\* The retry is pending only after a 429 whose hint is above 0 and at most
\* 5 seconds.
RetryOnlyOnHint ==
  gen.pc = "retry" =>
    /\ gen.lastErr.status = 429
    /\ getRetryAfterSeconds(gen.lastErr).t = "number"
    /\ getRetryAfterSeconds(gen.lastErr).n \in 1..RetryMaxSeconds
    /\ gen.calls[Len(gen.calls)].i = gen.i
    /\ ~gen.calls[Len(gen.calls)].retry

\* A call that walked the list to its end throws lastErr, which is an
\* error, after every candidate was called.
ThrowsLastError ==
  (gen.pc = "thrown" /\ Len(gen.candidates) > 0) =>
    /\ \A k \in 1..Len(gen.candidates) : CallsOn(k) # {}
    /\ gen.lastErr.t = "error"
    /\ gen.thrown = gen.lastErr
    /\ gen.result = JsonNull

C27_Walk == WalkedInOrder /\ RetryOnlyOnHint /\ ThrowsLastError

\* C27: generateAnswer terminates: every call that has begun ends, returned
\* or thrown; meanwhile it calls the candidates in list order, at most
\* twice each, the second time only as the retry after a 429 with a hint
\* above 0 and at most 5 seconds, and after the last failed candidate it
\* throws the error recorded last.
C27_AlwaysTerminates ==
  /\ []C27_Walk
  /\ [](gen.pc \in {"attempt", "retry"} => <>GenSettled)

\* Five candidates, all failed, one of them after a retry: the error thrown
\* is the one recorded at the last candidate.
C27_Witness ==
  /\ gen.pc = "thrown"
  /\ Len(gen.candidates) = 5
  /\ Len(gen.calls) > 5
  /\ gen.calls[Len(gen.calls)].i = 5
  /\ gen.thrown.status = 404

\* C29: a response that generateAnswer parsed from JSON and returns has a
\* non-empty answer, whether the first attempt or the retry got it.
C29_ParsedAnswerNonEmpty ==
  (gen.pc = "returned" /\ ~gen.result.parseError) => TruthyStr(gen.result.answer)

\* C29 for the first attempt on a candidate: what it returns from JSON has
\* an answer.
C29_FirstAttemptAnswerNonEmpty ==
  (/\ gen.pc = "returned"
   /\ ~gen.result.parseError
   /\ ~gen.calls[Len(gen.calls)].retry)
    => TruthyStr(gen.result.answer)

\* The retry returned JSON that has no answer.
C29_RetryReturnedNoAnswer ==
  /\ gen.pc = "returned"
  /\ ~gen.result.parseError
  /\ gen.calls[Len(gen.calls)].retry
  /\ ~TruthyStr(gen.result.answer)

(***************************************************************************)
(* Properties of answerQuestion.                                           *)
(***************************************************************************)
\* retrieveChunks was called for the request and returned.
QaRetrieved == pc # "store" /\ retrieval.st = "returned"

\* based_on_docs cites the first n retrieved chunks, as many as there are,
\* in their order.
TopChunksCited(n) ==
  /\ Len(response.based_on_docs) = Min2(n, Len(retrieval.chunks))
  /\ \A i \in 1..Len(response.based_on_docs) :
       /\ response.based_on_docs[i].chunkId = retrieval.chunks[i].chunkId
       /\ response.based_on_docs[i].docId = retrieval.chunks[i].docId
       /\ response.based_on_docs[i].docName = retrieval.chunks[i].docName
       /\ response.based_on_docs[i].startChar = retrieval.chunks[i].startChar
       /\ response.based_on_docs[i].endChar = retrieval.chunks[i].endChar

\* C21: when retrieveChunks returns no chunk, the response is 200 with an
\* answer that holds 'Bilmiyorum', based_on_docs = [] and confidence low,
\* and generateAnswer is not called for the request (the request is over
\* with that response).
C21_NoChunksNoGenerator ==
  (QaRetrieved /\ Len(retrieval.chunks) = 0) =>
    /\ pc = "responded"
    /\ response.status = 200
    /\ \E i \in 1..Len(response.answer) : response.answer[i] = "Bilmiyorum"
    /\ response.based_on_docs = <<>>
    /\ response.confidence = Low
    /\ generated = NoGenerated

\* There are candidate documents, none with a text that can be had.
C21_Witness ==
  /\ pc = "responded"
  /\ QaRetrieved
  /\ Len(retrieval.candidateDocs) > 0
  /\ Len(retrieval.chunks) = 0
  /\ response.status = 200

C23_LimitsClamped ==
  (pc # "store" /\ questionCheck(body) = "ok") =>
    /\ request.topK \in 1..TopKCap
    /\ request.docLimit \in 1..DocLimitCap
    /\ response.status = 200 =>
         response.retrieval = [docLimit |-> request.docLimit, topK |-> request.topK]
    /\ (body.topK.t = "number" /\ body.topK.n \in 1..TopKCap) =>
         request.topK = body.topK.n
    /\ (body.docLimit.t = "number" /\ body.docLimit.n \in 1..DocLimitCap) =>
         request.docLimit = body.docLimit.n

\* A huge topK and a docLimit that is a string are clamped and parsed.
C23_Witness ==
  /\ pc = "responded"
  /\ body.topK = Num(1000)
  /\ body.docLimit.t = "string"
  /\ response.status = 200
  /\ response.retrieval = [docLimit |-> 9, topK |-> TopKCap]

\* What answerQuestion sends after retrieveChunks gave retrieved, with the
\* generator behaving as it did for the request.
qaOutcomeFrom(req, retrieved) ==
  [candidateDocs |-> retrieved.candidateDocs,
   response |-> IF afterRetrieval(req, retrieved) # NoResponse
                THEN afterRetrieval(req, retrieved)
                ELSE qaRespond(req, retrieved.chunks, generated)]

\* The same for body b, with the database behaving as it did for the
\* request.
qaOutcome(b) ==
  qaOutcomeFrom(qaRequest(b, request.fail, request.rank),
                callRetrieveChunks(qaRequest(b, request.fail, request.rank)))

C28_UnparsedDegrades ==
  (/\ pc = "responded"
   /\ Len(generated.calls) > 0
   /\ generated.calls[Len(generated.calls)].unparsed)
    => /\ generated.pc = "returned"
       /\ generated.result.citations = Array(<<>>)
       /\ generated.result.confidence = Str(Low)
       /\ response.status = 200
       /\ response.llm.present /\ response.llm.used
       /\ TopChunksCited(FallbackCitations)

\* The text was a cut-off JSON object, and more than 3 chunks were
\* retrieved.
C28_Witness ==
  /\ pc = "responded"
  /\ Len(generated.calls) > 0
  /\ generated.calls[Len(generated.calls)].unparsed
  /\ generated.result.answer = Str(Owl)
  /\ Len(retrieval.chunks) > FallbackCitations
  /\ Len(response.based_on_docs) = FallbackCitations

(***************************************************************************)
(* The quote of a validated citation.                                      *)
(***************************************************************************)
\* The first claim matches a retrieved chunk whose text is a string, and
\* the first citation is made from the two.
FirstClaimCited ==
  /\ Built /\ AllChunksObjects /\ MaxCitationsIsCount
  /\ Len(Claims) > 0 /\ Len(Cits) > 0
  /\ MatchedChunk(Claims[1]) # 0
  /\ Chunks[MatchedChunk(Claims[1])].text.t = "string"

\* The claim's own quote, as a string.
OwnQuote(c) == IF c.quote.t = "string" THEN c.quote ELSE Str(<<>>)

\* The part of the chunk's text between the offsets of the citation, which
\* count from the start of the document.
CitedPart(cit, chunk) ==
  Slice(chunk.text.s, cit.startChar - chunk.startChar, cit.endChar - chunk.startChar)

\* C25: the quote of the citation of a matched claim is (a) the claim's own
\* quote, sanitized, if that is not empty; (b) else the sanitized part of the
\* chunk's text at the citation's clamped offsets, taken relative to the
\* chunk's startChar; (c) else, if that is empty, the sanitized first 200
\* characters of the chunk's text.
C25_QuotePriority ==
  FirstClaimCited =>
    LET c == Claims[1]
        chunk == Chunks[MatchedChunk(c)]
        own == sanitizeQuote(OwnQuote(c))
        part == sanitizeQuote(Str(CitedPart(Cits[1], chunk)))
        preview == sanitizeQuote(Str(Slice(chunk.text.s, 0, PreviewLen)))
    IN  Cits[1].quote = (IF Len(own) > 0 THEN own
                         ELSE IF Len(part) > 0 THEN part
                         ELSE preview)

\* A claim without quote is matched to a chunk that starts at 4, and the
\* quote is the part of the text at the claimed offsets less 4.
C25_Witness ==
  /\ FirstClaimCited
  /\ Len(sanitizeQuote(OwnQuote(Claims[1]))) = 0
  /\ Chunks[MatchedChunk(Claims[1])].startChar > 0
  /\ Cits[1].startChar > Chunks[MatchedChunk(Claims[1])].startChar
  /\ Cits[1].quote = <<"a", " ", "a">>

\* The part at the offsets is empty and the quote is the preview.
C25_PreviewReached ==
  /\ FirstClaimCited
  /\ Len(sanitizeQuote(OwnQuote(Claims[1]))) = 0
  /\ Len(sanitizeQuote(Str(CitedPart(Cits[1], Chunks[MatchedChunk(Claims[1])])))) = 0
  /\ Len(Cits[1].quote) > 0

\* The claim's own quote is the quote.
C25_OwnQuoteReached ==
  /\ FirstClaimCited
  /\ Len(sanitizeQuote(OwnQuote(Claims[1]))) > 0
  /\ Cits[1].quote = <<"a", " ", "b">>

(***************************************************************************)
(* The text of a candidate document.                                       *)
(***************************************************************************)
HasStoredText(doc) ==
  doc.contentText.t = "string" /\ Len(Trim(doc.contentText.s)) > 0

ExtractionFails(doc) ==
  LET extracted == extractTextFromFile(doc.storedPath, doc.mimeType)
  IN  extracted.st = "throw" \/ Len(Trim(extracted.s)) = 0

CallsFor(calls, id) ==
  Cardinality({k \in 1..Len(calls) : calls[k].id = id})

TextAcquired(docs, allChunks) ==
  LET calls == extractionCalls(docs)
  IN  \A c \in 1..Len(docs) :
        LET doc == docs[c]
        IN  /\ HasStoredText(doc) => CallsFor(calls, doc.id) = 0
            /\ ~HasStoredText(doc) => CallsFor(calls, doc.id) = 1
            /\ (~HasStoredText(doc) /\ ExtractionFails(doc)) =>
                 \A i \in 1..Len(allChunks) : allChunks[i].docId # doc.id

\* C26: for each candidate document, retrieveChunks uses the stored
\* contentText when it is non-blank and makes no extraction call for that
\* document; otherwise it makes exactly one extraction call for that
\* document, and a failed or blank extraction leaves the document without
\* chunks.
C26_TextAcquisition ==
  pc = "retrieved" => TextAcquired(retrieval.candidateDocs, retrieval.allChunks)

\* C26 for a database without the full-text table, where no document is a
\* candidate twice.
C26_TextAcquisitionWithoutFts ==
  (pc = "retrieved" /\ ~fts5Available) =>
    TextAcquired(retrieval.candidateDocs, retrieval.allChunks)

\* Without the full-text table: a candidate with stored text next to a
\* candidate without.
C26_StoredTextReached ==
  /\ pc = "retrieved"
  /\ ~fts5Available
  /\ Len(retrieval.candidateDocs) > 1
  /\ \E c \in 1..Len(retrieval.candidateDocs) :
       /\ HasStoredText(retrieval.candidateDocs[c])
       /\ \E i \in 1..Len(retrieval.allChunks) :
            retrieval.allChunks[i].docId = retrieval.candidateDocs[c].id
  /\ \E c \in 1..Len(retrieval.candidateDocs) :
       ~HasStoredText(retrieval.candidateDocs[c])

\* Without the full-text table: a candidate whose file is extracted and a
\* candidate whose extraction fails.
C26_ExtractionReached ==
  /\ pc = "retrieved"
  /\ ~fts5Available
  /\ \E c \in 1..Len(retrieval.candidateDocs) :
       /\ ~HasStoredText(retrieval.candidateDocs[c])
       /\ ~ExtractionFails(retrieval.candidateDocs[c])
       /\ \E i \in 1..Len(retrieval.allChunks) :
            retrieval.allChunks[i].docId = retrieval.candidateDocs[c].id
  /\ \E c \in 1..Len(retrieval.candidateDocs) :
       /\ ~HasStoredText(retrieval.candidateDocs[c])
       /\ ExtractionFails(retrieval.candidateDocs[c])

\* The file of one document is extracted twice in one call.
C26_ExtractedTwice ==
  /\ pc = "retrieved"
  /\ \E c \in 1..Len(retrieval.candidateDocs) :
       CallsFor(extractionCalls(retrieval.candidateDocs),
                retrieval.candidateDocs[c].id) > 1

(***************************************************************************)
(* Properties of uploadDocument.                                           *)
(***************************************************************************)
RowsWith(sha256) ==
  {d \in 1..Len(documents) : documents[d].sha256 = sha256}

RejectedAsDuplicate(u) ==
  u.pc = "responded" /\ u.status = 409 /\ u.code = "DUPLICATE_DOC"

DuplicateCleaned(u) ==
  /\ u.storedPath \notin DOMAIN disk
  /\ Cardinality(RowsWith(u.sha256)) = 1

\* C30: whenever an upload ends rejected as a duplicate (409 DUPLICATE_DOC),
\* the file stored for that request has been removed and the table holds
\* exactly one document with that sha256, whether the uploads ran one
\* after the other or interleaved.
C30_DuplicateLeavesNoFile ==
  \A i \in 1..Len(uploads) :
    RejectedAsDuplicate(uploads[i]) => DuplicateCleaned(uploads[i])

\* C30 for the requests that ran with no other request in progress.
C30_SequentialDuplicateLeavesNoFile ==
  \A i \in 1..Len(uploads) :
    (RejectedAsDuplicate(uploads[i]) /\ uploads[i].alone)
      => DuplicateCleaned(uploads[i])

\* The table never holds two documents with one sha256.
C30_Sha256Unique ==
  \A d, e \in 1..Len(documents) :
    documents[d].sha256 = documents[e].sha256 => d = e

\* A request that ran alone was rejected as a duplicate.
C30_SequentialReached ==
  \E i \in 1..Len(uploads) :
    RejectedAsDuplicate(uploads[i]) /\ uploads[i].alone

\* Two requests with the same bytes both passed the duplicate check, one
\* was stored and the other rejected by the unique index.
C30_RaceReached ==
  \E i, j \in 1..Len(uploads) :
    /\ i # j
    /\ uploads[i].status = 201
    /\ RejectedAsDuplicate(uploads[j])
    /\ Len(uploads[j].extracted) > 0
    /\ uploads[j].storedPath \in DOMAIN disk

====
